---- MODULE Spec2Model ----
(***************************************************************************)
(* Tool-calling orchestration of the conversational assistant backend.     *)
(*                                                                         *)
(* The module models LangChainProvider (generate_response,                 *)
(* _handle_tool_calls, _get_memory, clear_memory), the tool wrapper        *)
(* tool_func, the response-parser registry, the context-limit              *)
(* computation and ConversationService.process_message.                    *)
(*                                                                         *)
(* The completion API and the travel API are the environment: every        *)
(* completion response and every handler outcome is chosen                 *)
(* nondeterministically from a finite alphabet.  md5 is taken to be        *)
(* collision free, so a search hash is modelled by the canonical           *)
(* (key-sorted) serialization it is computed from.                         *)
(***************************************************************************)
EXTENDS Integers, Sequences, FiniteSets, TLC

(***************************************************************************)
(* Bounds of the exploration.                                              *)
(***************************************************************************)
\* "wide" behaviours: tool rounds explored over the wide response alphabet
MaxRounds == 2
\* process_message calls in one behaviour
MaxExchanges == 2
\* number of date changes in one behaviour
MaxDay == 1

(***************************************************************************)
(* Program constants.                                                      *)
(***************************************************************************)
max_iterations == 10
reserved_tokens == 5000
avg_chars_per_flight == 1500
estimated_tokens_per_message == 500
aggressive_limit == 5
TruncationMarkerLen == 15

Users == {"u1", "u2"}
MessageBodies == {"find me a flight"}
Models == {"gpt-4", "gpt-4o-mini"}

Max(a, b) == IF a >= b THEN a ELSE b
Min(a, b) == IF a <= b THEN a ELSE b

(***************************************************************************)
(* Context limits (ContextBudgetManager).                                  *)
(***************************************************************************)
MODEL_TOKEN_LIMITS ==
    [m \in {"gpt-4o", "gpt-4o-mini", "gpt-4-turbo", "gpt-4",
            "gpt-3.5-turbo", "gpt-3.5-turbo-16k"} |->
        CASE m = "gpt-4o" -> 128000
          [] m = "gpt-4o-mini" -> 128000
          [] m = "gpt-4-turbo" -> 128000
          [] m = "gpt-4" -> 8192
          [] m = "gpt-3.5-turbo" -> 16385
          [] m = "gpt-3.5-turbo-16k" -> 16385]

\* exact match; every other name falls back to 128000
get_model_token_limit(m) ==
    IF m \in DOMAIN MODEL_TOKEN_LIMITS THEN MODEL_TOKEN_LIMITS[m] ELSE 128000

\* int(len(text) / 3.5)
estimate_tokens_from_chars(n) == (n * 2) \div 7

\* calculate_context_limits, as a function of the model's token capacity;
\* int(x * 0.6) = (6x) div 10 and int(x * 3.5) = (7x) div 2 for the
\* capacities above reserved_tokens
LimitsForCapacity(max_tokens) ==
    LET available_tokens == max_tokens - reserved_tokens
        max_tool_message_tokens == (available_tokens * 6) \div 10
        max_tool_message_chars == (max_tool_message_tokens * 7) \div 2
        estimated_tokens_per_flight == estimate_tokens_from_chars(avg_chars_per_flight)
        max_flights_in_context ==
            Max(5, max_tool_message_tokens \div estimated_tokens_per_flight)
        max_chars_per_flight ==
            Min(2000, max_tool_message_chars \div max_flights_in_context)
        max_history_messages ==
            Max(5, (available_tokens * 4) \div (10 * estimated_tokens_per_message))
    IN [max_total_tokens |-> max_tokens,
        max_tool_message_tokens |-> max_tool_message_tokens,
        max_tool_message_chars |-> max_tool_message_chars,
        max_flights_in_context |-> max_flights_in_context,
        max_chars_per_flight |-> max_chars_per_flight,
        max_history_messages |-> max_history_messages]

calculate_context_limits(m) == LimitsForCapacity(get_model_token_limit(m))

(***************************************************************************)
(* Tool calls, identity keys and arguments.                                *)
(***************************************************************************)
\* a tool call that carries no "id" entry
NoId == "<absent>"

\* identity keys: the call's id, or call_{iteration}_{name}
IdKey(id) == [id |-> id, it |-> 0, name |-> ""]
SynthKey(it, name) == [id |-> NoId, it |-> it, name |-> name]
NoKey == [id |-> NoId, it |-> 0, name |-> ""]

\* tool_call.get("id") or f"call_{iteration}_{name}"
CallKey(call, it) ==
    IF call.id = NoId THEN SynthKey(it, call.name) ELSE IdKey(call.id)

\* the tools built from the handlers of the flights vertical
ToolNames == {"search_flights", "view_booking", "cancel_booking", "view_travel_history"}

\* "required" of the handlers' parameter schemas
RequiredParams(name) ==
    CASE name = "search_flights" ->
            {"flight_type", "origin", "destination", "departure_date"}
      [] name = "view_booking" -> {"booking_id"}
      [] name = "cancel_booking" -> {"booking_id", "confirmation"}
      [] OTHER -> {}

\* arguments are ordered lists of <<key, value>> pairs (a JSON object)
ArgKeys(args) == {args[i][1] : i \in DOMAIN args}
ArgValue(args, k) == args[CHOOSE i \in DOMAIN args : args[i][1] = k][2]

\* the args_schema check of StructuredTool.invoke: required fields present
ValidArgs(name, args) == RequiredParams(name) \subseteq ArgKeys(args)

\* alphabetical rank of the argument names
KeyRank(k) ==
    CASE k = "booking_id" -> 1
      [] k = "confirmation" -> 2
      [] k = "departure_date" -> 3
      [] k = "destination" -> 4
      [] k = "flight_type" -> 5
      [] k = "origin" -> 6
      [] OTHER -> 7

RECURSIVE SortKeys(_)
SortKeys(ks) ==
    IF ks = {} THEN <<>>
    ELSE LET k == CHOOSE x \in ks : \A y \in ks : KeyRank(x) <= KeyRank(y)
         IN <<k>> \o SortKeys(ks \ {k})

\* json.dumps(tool_args, sort_keys=True): the pairs in key order
search_key(args) ==
    LET ks == SortKeys(ArgKeys(args))
    IN [i \in 1..Len(ks) |-> <<ks[i], ArgValue(args, ks[i])>>]

\* hashlib.md5(search_key).hexdigest(), collision free
search_hash(args) == search_key(args)

(***************************************************************************)
(* Handlers and the tool wrapper.  A handler result is the dict the        *)
(* handler returns, reduced to what the orchestrator reads: its success    *)
(* flag, its error text, the state of data.Fares, the lengths of the       *)
(* context strings the fare parser derives from it, and the length of its  *)
(* JSON serialization.                                                     *)
(***************************************************************************)
HandlerResult(success, error, fares, ctx, len) ==
    [success |-> success, error |-> error, fares |-> fares, ctx |-> ctx, len |-> len]

\* len(str(e)) of the messages raised or returned by the handlers
ErrLen(e) ==
    CASE e = "Invalid parameters for view_booking" -> 35
      [] e = "Invalid parameters for cancel_booking" -> 37
      [] e = "Booking B1 not found or does not belong to user" -> 47
      [] e = "Failed to search flights: timeout" -> 33
      [] e = "Duplicate search" -> 16
      [] OTHER -> 0

\* json.dumps({"success": False, "error": e}) has 31 characters around e
ErrorResult(e) == HandlerResult("false", e, "absent", <<>>, 31 + ErrLen(e))

\* what handler.handle does: [raised |-> TRUE, error] or [raised |-> FALSE, result]
Raised(e) == [raised |-> TRUE, error |-> e, result |-> ErrorResult(e)]
Returned(r) == [raised |-> FALSE, error |-> "", result |-> r]

\* ViewBookingHandler.handle; `o` is the outcome of the travel API
ViewBookingHandle(args, o) ==
    IF "booking_id" \notin ArgKeys(args) \/ ArgValue(args, "booking_id") = ""
    THEN Raised("Invalid parameters for view_booking")
    ELSE IF o.t = "ok"
         THEN Returned(HandlerResult("true", "", "absent", <<>>, 354))
         ELSE Returned(HandlerResult("false",
                  "Booking B1 not found or does not belong to user", "absent", <<>>, 95))

\* SearchFlightsHandler.handle: every failure is returned, none is raised
SearchFlightsHandle(args, o) ==
    CASE o.t = "ok" -> Returned(HandlerResult("true", "", "valid", o.ctx, 2000))
      [] o.t = "badshape" -> Returned(HandlerResult("true", "", "invalid", <<>>, 300))
      [] OTHER -> Returned(HandlerResult("false", "Failed to search flights: timeout",
                                         "absent", <<>>, 138))

HandlerHandle(name, args, o) ==
    CASE name = "view_booking" -> ViewBookingHandle(args, o)
      [] name = "search_flights" -> SearchFlightsHandle(args, o)
      [] OTHER -> Returned(HandlerResult(IF o.t = "ok" THEN "true" ELSE "false",
                                         "", "absent", <<>>, 100))

\* a faulty variant of tool_func: the handler's exception escapes the wrapper
tool_func_reraise(name, args, o) ==
    LET h == HandlerHandle(name, args, o)
    IN IF h.raised THEN [escaped |-> TRUE, error |-> h.error, result |-> h.result]
       ELSE [escaped |-> FALSE, error |-> "", result |-> h.result]

\* tool_func: the handler's result, or {"success": False, "error": str(e)}
\* when the handler raises; nothing escapes
tool_func(name, args, o) ==
    LET h == HandlerHandle(name, args, o)
    IN [escaped |-> FALSE, error |-> "", result |-> h.result]

(***************************************************************************)
(* Result shaping and truncation (parser registry, context budget).        *)
(* A Tool message body records the form of the content string:             *)
(*   "json"  a JSON object        "cut"  a JSON prefix + "... [truncated]" *)
(*   "text"  plain text that is no JSON                                    *)
(* and whether FORMATTING_INSTRUCTIONS is prepended.                       *)
(***************************************************************************)
Body(form, instruction, success, error, ctx, len) ==
    [form |-> form, instruction |-> instruction, success |-> success,
     error |-> error, ctx |-> ctx, len |-> len]
NoBody == Body("none", "no", "none", "", <<>>, 0)

RECURSIVE SumSeq(_)
SumSeq(s) == IF s = <<>> THEN 0 ELSE Head(s) + SumSeq(Tail(s))

Take(s, n) == IF Len(s) > n THEN SubSeq(s, 1, n) ELSE s

\* length of json.dumps of a list of strings of the given lengths
JsonListLen(ctx) ==
    IF ctx = <<>> THEN 2 ELSE SumSeq(ctx) + 4 * Len(ctx)

\* length of json.dumps(clean_result) without its formatting_instruction
CleanResultOverhead == 279
CleanResultLen(ctx, extra) == CleanResultOverhead + extra + JsonListLen(ctx)

\* FlightSearchResponseParser.can_parse
can_parse(tool_name, result) ==
    tool_name = "search_flights" /\ result.success = "true" /\ result.fares # "absent"

\* ResponseParserRegistry.parse_result: the clean result, or None when no
\* parser applies or the parser fails (parse_flight_search_response rejects
\* an invalid Fares list)
parse_result(tool_name, result) ==
    IF can_parse(tool_name, result) /\ result.fares = "valid"
    THEN [none |-> FALSE, ctx |-> result.ctx]
    ELSE [none |-> TRUE, ctx |-> <<>>]

\* flight_ctx[:max_chars_per_flight] + "... [truncated]"
TruncateFlight(n, limits) ==
    IF n > limits.max_chars_per_flight
    THEN limits.max_chars_per_flight + TruncationMarkerLen ELSE n

\* lines 682-706: the list is capped, then rebuilt from the list read
\* before the cap
TruncateContext(context_list, limits) ==
    LET capped == Take(context_list, limits.max_flights_in_context)
        truncated_list == [i \in 1..Len(context_list) |->
                              TruncateFlight(context_list[i], limits)]
    IN truncated_list

\* " [Showing top 5 of N flights due to context limits]"
AggressiveNoteLen == 51

\* a faulty variant of ToolMessageBody: a content that does not fit is sent whole
ToolMessageBody_uncut(tool_name, result, limits) ==
    LET parsed == parse_result(tool_name, result)
    IN IF ~parsed.none
       THEN Body("json", "yes", "true", "", TruncateContext(parsed.ctx, limits),
                 CleanResultLen(TruncateContext(parsed.ctx, limits), 0))
       ELSE Body("json", "no", result.success, result.error, <<>>, result.len)

\* lines 708-773: the content of the Tool message of an executed call
ToolMessageBody(tool_name, result, limits) ==
    LET parsed == parse_result(tool_name, result)
        max_size == limits.max_tool_message_chars
    IN IF ~parsed.none
       THEN LET ctx1 == TruncateContext(parsed.ctx, limits)
                len1 == CleanResultLen(ctx1, 0)
                ctx2 == Take(ctx1, aggressive_limit)
                len2 == CleanResultLen(ctx2, AggressiveNoteLen)
            IN IF len1 <= max_size
               THEN Body("json", "yes", "true", "", ctx1, len1)
               ELSE IF len2 <= max_size
                    THEN Body("json", "yes", "true", "", ctx2, len2)
                    ELSE Body("cut", "yes", "true", "", ctx2,
                              max_size + TruncationMarkerLen)
       ELSE IF result.len <= max_size
            THEN Body("json", "no", result.success, result.error, <<>>, result.len)
            ELSE Body("cut", "no", result.success, result.error, <<>>,
                      max_size + TruncationMarkerLen)

\* json.loads(content): defined for a JSON object only
Deserializes(body) == body.form = "json" /\ body.instruction = "no"

(***************************************************************************)
(* Messages.                                                               *)
(***************************************************************************)
Msg(role, content, date, tool_calls, tool_call_id, body) ==
    [role |-> role, content |-> content, date |-> date,
     tool_calls |-> tool_calls, tool_call_id |-> tool_call_id, body |-> body]

SystemMessage(date) == Msg("system", "system_prompt", date, <<>>, NoKey, NoBody)
HumanMessage(text) == Msg("human", text, 0, <<>>, NoKey, NoBody)
AIMessage(text, tool_calls) == Msg("ai", text, 0, tool_calls, NoKey, NoBody)
ToolMessage(body, tool_call_id) == Msg("tool", "", 0, <<>>, tool_call_id, body)

\* the synthesized result of a duplicate search (152 characters of JSON)
DuplicateSearchBody == Body("json", "no", "false", "Duplicate search", <<>>, 152)
\* f"Error: {str(e)}" of the except branch around tool.invoke
InvokeErrorBody == Body("text", "no", "none", "validation error", <<>>, 100)

IsBlank(text) == text = "" \/ text = " "

(***************************************************************************)
(* The environment's alphabets.                                            *)
(***************************************************************************)
ArgsA == << <<"flight_type", "one_way">>, <<"origin", "EZE">>,
            <<"destination", "MIA">>, <<"departure_date", "2025-01-10">> >>
\* the arguments of ArgsA in another key order
ArgsA2 == << <<"departure_date", "2025-01-10">>, <<"destination", "MIA">>,
             <<"origin", "EZE">>, <<"flight_type", "one_way">> >>
ArgsV == << <<"booking_id", "B1">> >>
\* passes the schema, rejected by ViewBookingHandler.validate_parameters
ArgsVEmpty == << <<"booking_id", "">> >>
\* fails the schema: booking_id is required
ArgsNone == << >>

ToolCall(id, name, args) == [id |-> id, name |-> name, args |-> args]

cSearchA == ToolCall("call_a", "search_flights", ArgsA)
cSearchB == ToolCall("call_b", "search_flights", ArgsA2)
cViewA == ToolCall("call_a", "view_booking", ArgsV)
cViewRaise == ToolCall("call_b", "view_booking", ArgsVEmpty)
cViewNoId == ToolCall(NoId, "view_booking", ArgsV)
cViewBad == ToolCall("call_b", "view_booking", ArgsNone)
cUnknown == ToolCall("call_b", "book_hotel", ArgsNone)

WideBatches ==
    { <<cSearchA>>, <<cSearchB>>, <<cViewNoId>>, <<cViewRaise>>, <<cViewBad>>,
      <<cUnknown>>, <<cSearchA, cSearchB>>, <<cSearchA, cSearchA>>,
      <<cViewA, cViewRaise>>, <<cViewA, cViewA>> }

Texts == {"", "Here are the results"}

WideResponses ==
    {AIMessage(t, b) : t \in Texts, b \in WideBatches \cup {<<>>}}

DeepResponses ==
    {AIMessage("", <<cViewNoId>>), AIMessage("", <<cViewBad>>)}
    \cup {AIMessage(t, <<>>) : t \in Texts}

\* tool calls of one response in the alphabet of mode "burst"
BurstCalls == 6
BurstIds == <<"call_1", "call_2", "call_3", "call_4", "call_5", "call_6", "call_7">>
\* one response that asks for BurstCalls bookings, each call with its own id
BurstBatch == [i \in 1..BurstCalls |-> ToolCall(BurstIds[i], "view_booking", ArgsV)]

BurstResponses ==
    {AIMessage("", BurstBatch), AIMessage("", <<cSearchA>>)}
    \cup {AIMessage(t, <<>>) : t \in Texts}

\* one response that asks for a booking and for a function no tool serves
MixedBatch == <<cViewA, cUnknown>>

\* tool calls and text of the alphabet of mode "carry": a fare search, a
\* booking lookup whose request carries the search's Tool message again, and
\* the mixed batch
CarryResponses ==
    {AIMessage("", <<cSearchA>>), AIMessage("", <<cViewRaise>>),
     AIMessage("", MixedBatch), AIMessage("Here are the results", <<>>)}

OkOutcome == [t |-> "ok", ctx |-> <<420, 380>>]
\* the travel API returns six fares: six entries of allFlightsContext
ManyOutcome == [t |-> "ok", ctx |-> <<400, 400, 400, 400, 400, 400>>]
FailOutcome == [t |-> "fail", ctx |-> <<>>]
\* the travel API answers 200 with a body whose Fares list is empty
BadShapeOutcome == [t |-> "badshape", ctx |-> <<>>]
Outcomes == {OkOutcome, FailOutcome}

(***************************************************************************)
(* State.                                                                  *)
(***************************************************************************)
VARIABLES
    model,                      \* self.model
    mode,                       \* the environment's alphabet: "wide", "deep", "burst", "carry"
    today,                      \* date.today()
    memories,                   \* self._memories: user id -> message list
    current_user_id,            \* self._current_user_id ("" is None)
    pc,                         \* position of the exchange in progress
    user_id,                    \* generate_response's user_id
    message_body,               \* generate_response's message_body
    response,                   \* the last completion response
    current_history,            \* _handle_tool_calls: current_history
    iteration,                  \* _handle_tool_calls: iteration
    executed_searches,          \* _handle_tool_calls: executed_searches
    all_executed_tool_call_ids, \* _handle_tool_calls: all_executed_tool_call_ids
    executed_tool_calls,        \* executed_tool_calls of the last round
    tool_messages,              \* tool_messages of the last round
    response_text,              \* generate_response's return value
    error,                      \* the exception generate_response raised
    service_response,           \* process_message's ConversationResponse
    request,                    \* chat_history of the last completion request
    invoked,                    \* handler invocations of this exchange
    round_log,                  \* what became of each call of the last round
    completion_calls,           \* completion requests of this exchange
    memory_before,              \* self._memories when the exchange began
    stalled,                    \* how the exchange ended: "", "stall", "final", ...
    rounds_used,                \* tool rounds of this behaviour
    exchanges,                  \* process_message calls of this behaviour
    pkind,                      \* which function is applied on its own
    ppc,                        \* "ready" before the call, "done" after it
    cap1, cap2,                 \* two model token capacities
    limits1, limits2,           \* the context limits derived for them
    shape_model,                \* the model of a fare-search Tool message
    shape_ctx,                  \* allFlightsContext of the parsed search
    shape_fares,                \* "valid", or "invalid" when the parser rejects the Fares
    shape_out,                  \* the Tool message body built from it
    raw,                        \* parse_flight_search_response: response
    sort_order,                 \* parse_flight_search_response: sort_order
    limit,                      \* parse_flight_search_response: limit
    parsed,                     \* parse_flight_search_response: the outcome
    registry,                   \* VerticalManager: _handlers, _vertical_handlers
    register_calls,             \* the register_handler calls made so far
    threads,                    \* the parallel calls of generate_response
    search_cache,               \* search_flights_handler._search_cache
    clock,                      \* time.time(), in ticks of 15 seconds
    handled,                    \* handler invocations of the parallel calls
    api_log,                    \* calls of search_flight_availability
    redis,                      \* RedisConversationRepository: conversation:<user_id>
    workers,                    \* the callers of the repository
    repo_log,                   \* the repository calls that have returned
    cancel_pc,                  \* CancelBookingHandler.handle: "ready", "done"
    parameters,                 \* handle's parameters
    cancel_user_id,             \* handle's user_id
    cancel_result,              \* what handle returned or raised
    cancel_calls,               \* the calls of api_client.cancel_booking
    run_pc,                     \* _run_assistant_optimized: "polling", "returned", "raised"
    run_status,                 \* run.status
    attempt,                    \* attempt
    retrievals                  \* the calls of runs.retrieve

vars == <<model, mode, today, memories, current_user_id, pc, user_id,
          message_body, response, current_history, iteration,
          executed_searches, all_executed_tool_call_ids, executed_tool_calls,
          tool_messages, response_text, error, service_response, request,
          invoked, round_log, completion_calls, memory_before, stalled,
          rounds_used, exchanges,
          pkind, ppc, cap1, cap2, limits1, limits2, shape_model, shape_ctx, shape_fares,
          shape_out, raw, sort_order, limit, parsed,
          registry, register_calls, threads, search_cache, clock, handled,
          api_log, redis, workers, repo_log,
          cancel_pc, parameters, cancel_user_id, cancel_result, cancel_calls,
          run_pc, run_status, attempt, retrievals>>

\* the variables of the handler registry and of the parallel calls
yvars == <<registry, register_calls, threads, search_cache, clock, handled,
           api_log>>

\* the variables of the conversation repository
rvars == <<redis, workers, repo_log>>

\* the variables of the cancel_booking handler
cvars == <<cancel_pc, parameters, cancel_user_id, cancel_result, cancel_calls>>

\* the variables of the Assistants run
avars == <<run_pc, run_status, attempt, retrievals>>

\* the variables of the other components
ovars == <<rvars, cvars, avars>>

\* the variables the orchestration and the functions applied on their own
\* leave alone
xvars == <<yvars, ovars>>

\* the variables of the functions applied on their own
pvars == <<pkind, ppc, cap1, cap2, limits1, limits2, shape_model, shape_ctx, shape_fares,
           shape_out, raw, sort_order, limit, parsed>>

context_limits == calculate_context_limits(model)

\* an entry of self._memories: absent, or a ChatMessageHistory
NoMemory == [present |-> FALSE, messages |-> << >>]
Memory(messages) == [present |-> TRUE, messages |-> messages]

NoResponse == AIMessage("", <<>>)
\* len() of the texts that occur as message or reply
TextLen(text) ==
    CASE text = "find me a flight" -> 16
      [] text = "Here are the results" -> 20
      [] text = "I've completed the flight search. Here are the results." -> 55
      [] text = "I've completed the requested action. Here are the results." -> 58
      [] text = " " -> 1
      [] OTHER -> 0

\* ConversationResponse.metadata: None, or the dictionary of lines 95-98
NoMetadata == [keys |-> {}, message_length |-> 0, response_length |-> 0]
Metadata(message, text) ==
    [keys |-> {"message_length", "response_length"},
     message_length |-> TextLen(message), response_length |-> TextLen(text)]

NoServiceResponse ==
    [response_text |-> "", user_id |-> "", success |-> "none", error |-> "",
     metadata |-> NoMetadata]

\* values of the variables that no call has set
NoLimits ==
    [max_total_tokens |-> 0, max_tool_message_tokens |-> 0,
     max_tool_message_chars |-> 0, max_flights_in_context |-> 0,
     max_chars_per_flight |-> 0, max_history_messages |-> 0]
NoRaw == [shape |-> "empty", Fares |-> << >>]
NoParsed ==
    [error |-> "", options |-> << >>, allFlightsContext |-> << >>, totalCount |-> 0]

\* no function is applied on its own
PureOff ==
    /\ pkind = "off"
    /\ ppc = "done"
    /\ cap1 = 0
    /\ cap2 = 0
    /\ limits1 = NoLimits
    /\ limits2 = NoLimits
    /\ shape_model = ""
    /\ shape_ctx = << >>
    /\ shape_fares = "valid"
    /\ shape_out = NoBody
    /\ raw = NoRaw
    /\ sort_order = "cheapest"
    /\ limit = 0
    /\ parsed = NoParsed

\* the function names, verticals and handler objects of the registry
FunctionNames == {"search_flights", "view_booking"}
Verticals == {"flights", "hotels"}
Handler(id, function_name, is_handler) ==
    [id |-> id, function_name |-> function_name, is_handler |-> is_handler]
\* None
NoHandler == Handler("None", "", FALSE)
\* VerticalManager.__init__
EmptyRegistry ==
    [handlers |-> [n \in FunctionNames |-> NoHandler],
     vertical_handlers |-> [v \in Verticals |-> << >>]]

Threads == {"t1", "t2"}
\* the payloads a fare search is called with, by their md5 hash
PayloadHashes == {"p1", "p2"}
\* the cache entry a search returned, with its age at that time; no entry
NoCached == [key |-> <<"", "">>, age |-> -1]
\* a worker thread that has no message to process
IdleThread ==
    [pc |-> "idle", user_id |-> "", message_body |-> "", tool_calls |-> FALSE,
     payload_hash |-> "", handler_user_id |-> "", response_text |-> "",
     cached |-> NoCached]

\* no registration made, no parallel call started
RegistryOff == registry = EmptyRegistry /\ register_calls = << >>
ThreadsOff ==
    /\ threads = [t \in Threads |-> IdleThread]
    /\ search_cache = {}
    /\ clock = 0
    /\ handled = << >>
    /\ api_log = << >>

Workers == {"w1", "w2"}
\* redis.get returns None: no conversation stored under the key
NoConversation == [present |-> FALSE, messages |-> << >>]
Conversation(messages) == [present |-> TRUE, messages |-> messages]
\* a caller that is not inside a repository call
IdleWorker ==
    [pc |-> "idle", op |-> "", user_id |-> "", keep_last_n |-> 0,
     read |-> NoConversation, messages |-> << >>]

\* the conversation repository is empty and not in use
RepositoryOff ==
    /\ redis = [u \in Users |-> NoConversation]
    /\ workers = [w \in Workers |-> IdleWorker]
    /\ repo_log = << >>

\* a value of the "confirmation" parameter: its Python type and its repr
Value(type, value) == [type |-> type, value |-> value]
Absent == Value("absent", "")
NoParameters == [booking_id |-> Absent, confirmation |-> Absent]
NoCancelResult ==
    [raised |-> "", success |-> "none", cancelled |-> "none", error |-> ""]

\* the cancel_booking handler is not in use
CancelOff ==
    /\ cancel_pc = "off"
    /\ parameters = NoParameters
    /\ cancel_user_id = ""
    /\ cancel_result = NoCancelResult
    /\ cancel_calls = << >>

\* no Assistants run is polled
RunOff ==
    /\ run_pc = "off"
    /\ run_status = ""
    /\ attempt = 0
    /\ retrievals = 0

\* the other components are not in use
OthersOff == RepositoryOff /\ CancelOff /\ RunOff

\* no exchange in progress, no stored conversation
IdleState ==
    /\ today = 0
    /\ memories = [u \in Users |-> NoMemory]
    /\ current_user_id = ""
    /\ pc = "idle"
    /\ user_id = ""
    /\ message_body = ""
    /\ response = NoResponse
    /\ current_history = << >>
    /\ iteration = 0
    /\ executed_searches = {}
    /\ all_executed_tool_call_ids = {}
    /\ executed_tool_calls = {}
    /\ tool_messages = << >>
    /\ response_text = ""
    /\ error = ""
    /\ service_response = NoServiceResponse
    /\ request = << >>
    /\ invoked = << >>
    /\ round_log = << >>
    /\ completion_calls = 0
    /\ memory_before = [u \in Users |-> NoMemory]
    /\ stalled = ""
    /\ rounds_used = 0
    /\ exchanges = 0

Init ==
    /\ model \in Models
    /\ mode \in {"wide", "deep", "burst", "carry"}
    /\ IdleState
    /\ PureOff
    /\ RegistryOff
    /\ ThreadsOff
    /\ OthersOff

(***************************************************************************)
(* Memory (ConversationStore).                                             *)
(***************************************************************************)
RECURSIVE ReplaceFirstSystem(_, _)
\* the loop of _get_memory: the first SystemMessage is replaced, then break
ReplaceFirstSystem(messages, date) ==
    IF messages = << >> THEN << >>
    ELSE IF Head(messages).role = "system"
         THEN <<SystemMessage(date)>> \o Tail(messages)
         ELSE <<Head(messages)>> \o ReplaceFirstSystem(Tail(messages), date)

\* a faulty variant of _get_memory: the dated System message is added on every call
get_memory_readd(mems, u, date) ==
    IF ~mems[u].present
    THEN [mems EXCEPT ![u] = Memory(<<SystemMessage(date)>>)]
    ELSE [mems EXCEPT ![u] = Memory(Append(@.messages, SystemMessage(date)))]

\* _get_memory: self._memories after the call
get_memory(mems, u, date) ==
    IF ~mems[u].present
    THEN [mems EXCEPT ![u] = Memory(<<SystemMessage(date)>>)]
    ELSE [mems EXCEPT ![u] = Memory(ReplaceFirstSystem(@.messages, date))]

add_message(mems, u, msg) ==
    [mems EXCEPT ![u] = Memory(Append(@.messages, msg))]

RECURSIVE WithoutSystem(_)
WithoutSystem(messages) ==
    IF messages = << >> THEN << >>
    ELSE IF Head(messages).role = "system" THEN WithoutSystem(Tail(messages))
         ELSE <<Head(messages)>> \o WithoutSystem(Tail(messages))

\* generate_response, lines 506-509: chat_history[:-1] without System messages
FirstRequestHistory(chat_history) ==
    WithoutSystem(SubSeq(chat_history, 1, Len(chat_history) - 1))

(***************************************************************************)
(* One round of _handle_tool_calls.                                        *)
(***************************************************************************)
RoundState(msgs, executed, all_ids, searches, inv) ==
    [tool_messages |-> msgs, executed_tool_calls |-> executed,
     all_executed_tool_call_ids |-> all_ids, executed_searches |-> searches,
     invoked |-> inv, log |-> << >>]

\* what became of one requested call: "skipped" (identity key already
\* executed), "duplicate" (search already hashed), "no_tool", "invoke_error",
\* "executed"; `searched` tells whether the search handler has already run
\* with the same arguments in this exchange
Disposition(S, call, it, what) ==
    [key |-> CallKey(call, it), name |-> call.name, args |-> call.args,
     what |-> what,
     key_executed |-> CallKey(call, it) \in
                         (S.executed_tool_calls \cup S.all_executed_tool_call_ids),
     searched |-> (call.name = "search_flights"
                   /\ \E i \in DOMAIN S.invoked :
                         /\ S.invoked[i].name = "search_flights"
                         /\ search_key(S.invoked[i].args) = search_key(call.args))]

\* set intersection is non-empty: lines 589, 938 and 952
Intersects_never(a, b) == FALSE
Intersects(a, b) == a \cap b # {}

\* the identity keys requested by a response, lines 583-586 and 932-935
RequestedKeys(resp, it) ==
    {CallKey(resp.tool_calls[i], it) : i \in DOMAIN resp.tool_calls}

\* a faulty variant of AlreadyExecuted: the per-round and cross-round checks are lost
AlreadyExecuted_never(key, S) == FALSE

\* lines 608 and 613: the call was executed in this round or an earlier one
AlreadyExecuted(key, S) ==
    key \in S.executed_tool_calls \/ key \in S.all_executed_tool_call_ids

\* a faulty variant of SearchDedupKey: the arguments are hashed in the order given
SearchDedupKey_unsorted(args) == args

\* lines 630-631: the hash of the key-sorted arguments
SearchDedupKey(args) == search_hash(args)

\* lines 603-789 for one tool call; `o` is the outcome at the travel API, `uid`
\* is self._current_user_id
ExecuteCall(S, call, o, it, limits, uid) ==
    LET tool_name == call.name
        tool_call_id == CallKey(call, it)
        tool_args == call.args
        S1 == IF tool_name = "search_flights"
              THEN [S EXCEPT !.executed_searches = @ \cup {SearchDedupKey(tool_args)}]
              ELSE S
        h == HandlerHandle(tool_name, tool_args, o)
        S2 == [S1 EXCEPT !.invoked =
                  Append(@, [key |-> tool_call_id, name |-> tool_name,
                             args |-> tool_args, user_id |-> uid, it |-> it,
                             raised |-> h.raised, error |-> h.error,
                             success |-> h.result.success,
                             fares |-> h.result.fares])]
        r == tool_func(tool_name, tool_args, o)
        Log(T, what) == [T EXCEPT !.log = Append(@, Disposition(S, call, it, what))]
    IN IF AlreadyExecuted(tool_call_id, S) THEN Log(S, "skipped")
       ELSE IF tool_name = "search_flights"
               /\ SearchDedupKey(tool_args) \in S.executed_searches
            THEN Log([S EXCEPT !.tool_messages =
                         Append(@, ToolMessage(DuplicateSearchBody, tool_call_id))],
                     "duplicate")
       ELSE IF tool_name \notin ToolNames THEN Log(S1, "no_tool")
       ELSE IF ~ValidArgs(tool_name, tool_args)
            THEN Log([S1 EXCEPT !.tool_messages =
                         Append(@, ToolMessage(InvokeErrorBody, tool_call_id))],
                     "invoke_error")
       ELSE IF r.escaped
            THEN Log([S2 EXCEPT !.tool_messages =
                         Append(@, ToolMessage(Body("text", "no", "none", r.error,
                                                    <<>>, 7 + ErrLen(r.error)),
                                               tool_call_id))],
                     "invoke_error")
       ELSE Log([S2 EXCEPT
                !.executed_tool_calls = @ \cup {tool_call_id},
                !.all_executed_tool_call_ids = @ \cup {tool_call_id},
                !.tool_messages =
                    Append(@, ToolMessage(ToolMessageBody(tool_name, r.result, limits),
                                          tool_call_id))],
                "executed")

RECURSIVE RunBatch_reversed(_, _, _, _, _, _)
\* a faulty variant of RunBatch: the calls are served last to first
RunBatch_reversed(S, calls, outs, it, limits, uid) ==
    IF calls = << >> THEN S
    ELSE ExecuteCall(RunBatch_reversed(S, Tail(calls), Tail(outs), it, limits, uid),
                     Head(calls), Head(outs), it, limits, uid)

RECURSIVE RunBatch(_, _, _, _, _, _)
\* the for loop over response.tool_calls
RunBatch(S, calls, outs, it, limits, uid) ==
    IF calls = << >> THEN S
    ELSE RunBatch(ExecuteCall(S, Head(calls), Head(outs), it, limits, uid),
                  Tail(calls), Tail(outs), it, limits, uid)

(***************************************************************************)
(* The history window of the next completion request, lines 800-908.       *)
(***************************************************************************)
\* only a clean fare-search result carries all_flights_context
HasFlightsContext(body) == body.instruction = "yes"

\* lines 826-904: an earlier Tool message, cut again when its content is a
\* JSON object with an all_flights_context list
CarryForward(msg, limits) ==
    LET b == msg.body
        mf == limits.max_flights_in_context
        cut == [i \in 1..Len(b.ctx) |-> TruncateFlight(b.ctx[i], limits)]
    IN IF ~(Deserializes(b) /\ HasFlightsContext(b)) THEN msg
       ELSE IF Len(b.ctx) > mf
            THEN ToolMessage([b EXCEPT !.ctx = Take(b.ctx, mf),
                                       !.len = CleanResultLen(Take(b.ctx, mf), 29)],
                             msg.tool_call_id)
       ELSE IF cut # b.ctx
            THEN ToolMessage([b EXCEPT !.ctx = cut, !.len = CleanResultLen(cut, 0)],
                             msg.tool_call_id)
       ELSE IF b.len > limits.max_tool_message_chars
            THEN ToolMessage([b EXCEPT
                                 !.ctx = Take(b.ctx, aggressive_limit),
                                 !.len = CleanResultLen(Take(b.ctx, aggressive_limit),
                                                        AggressiveNoteLen)],
                             msg.tool_call_id)
       ELSE msg

RECURSIVE FilterMessages(_, _)
FilterMessages(messages, limits) ==
    IF messages = << >> THEN << >>
    ELSE LET msg == Head(messages)
             rest == FilterMessages(Tail(messages), limits)
         IN CASE msg.role = "system" -> rest
              [] msg.role = "tool" -> <<CarryForward(msg, limits)>> \o rest
              [] OTHER -> <<msg>> \o rest

LastN(s, n) == IF Len(s) > n THEN SubSeq(s, Len(s) - n + 1, Len(s)) ELSE s

\* line 804: current_history[-max_history_messages:]
RecentMessages(history, limits) == LastN(history, limits.max_history_messages)

\* filtered_history of the completion request that follows a round
NextRequestHistory(history, new_tool_messages, limits) ==
    LET recent_messages == RecentMessages(history, limits)
        keep == Max(0, Len(recent_messages) - Len(new_tool_messages))
        messages_before_tools == SubSeq(recent_messages, 1, keep)
    IN FilterMessages(messages_before_tools, limits) \o new_tool_messages

(***************************************************************************)
(* ConversationService.process_message around generate_response.           *)
(***************************************************************************)
ApologyText ==
    "I apologize, but I encountered an error processing your message. Please try again."

\* a faulty variant of ServiceFailure: the exception text is handed to the user as a success
ServiceFailure_leak(uid, e) ==
    [response_text |-> e, user_id |-> uid, success |-> "true", error |-> "",
     metadata |-> NoMetadata]

\* the except branch of process_message
ServiceFailure(uid, e) ==
    [response_text |-> ApologyText, user_id |-> uid, success |-> "false", error |-> e,
     metadata |-> NoMetadata]

\* the try branch of process_message
ServiceSuccess(uid, message, text) ==
    [response_text |-> text, user_id |-> uid, success |-> "true", error |-> "",
     metadata |-> Metadata(message, text)]

(***************************************************************************)
(* Actions.                                                                *)
(***************************************************************************)
FlightSearchNotice == "I've completed the flight search. Here are the results."
ActionNotice == "I've completed the requested action. Here are the results."

\* final_response of the stall branches: the text, or the notice when blank
StallText(text, notice) == IF IsBlank(text) THEN notice ELSE text

\* a faulty variant of LoopContinues: one round too many
LoopContinues_off_by_one(it) == it <= max_iterations

\* while iteration < max_iterations
LoopContinues(it) == it < max_iterations

\* the environment may start another round: tool calls are requested in the
\* first exchange of a behaviour, later exchanges are answered directly
RoundAllowed == exchanges = 1 /\ (mode = "deep" \/ rounds_used < MaxRounds)

Responses ==
    CASE mode = "deep" -> DeepResponses
      [] mode = "burst" -> BurstResponses
      [] mode = "carry" -> CarryResponses
      [] OTHER -> WideResponses
OutcomeChoices ==
    CASE mode = "deep" -> {OkOutcome}
      [] mode = "burst" -> {OkOutcome, BadShapeOutcome}
      [] mode = "carry" -> {ManyOutcome}
      [] OTHER -> Outcomes

\* a faulty variant of FinalMemory: the reply is not stored
FinalMemory_dropped(mems, u, text) == mems

\* a faulty variant of FinalMemory: the rounds worked on the stored list itself,
\* not on a copy of it
FinalMemory_aliased(mems, u, text) ==
    [mems EXCEPT ![u] = Memory(Append(current_history, AIMessage(text, << >>)))]

\* memory.add_ai_message(response_text)
FinalMemory(mems, u, text) == add_message(mems, u, AIMessage(text, << >>))

\* generate_response returns `text`: lines 531-541, then process_message's
\* try branch
Finish(text, how) ==
    /\ memories' = FinalMemory(memories, user_id, text)
    /\ response_text' = text
    /\ error' = ""
    /\ current_user_id' = ""
    /\ service_response' = ServiceSuccess(user_id, message_body, text)
    /\ stalled' = how
    /\ pc' = "returned"

\* process_message -> generate_response up to the first completion request
ProcessMessage(u, m) ==
    /\ pc = "idle"
    /\ exchanges < MaxExchanges
    /\ exchanges' = exchanges + 1
    /\ memory_before' = memories
    /\ current_user_id' = u
    /\ user_id' = u
    /\ message_body' = m
    /\ memories' = add_message(get_memory(memories, u, today), u, HumanMessage(m))
    /\ request' = FirstRequestHistory(memories'[u].messages)
    /\ completion_calls' = 1
    /\ pc' = "invoke"
    /\ UNCHANGED <<model, mode, today, response, current_history, iteration,
                   executed_searches, all_executed_tool_call_ids,
                   executed_tool_calls, tool_messages, response_text, error,
                   service_response, invoked, round_log, stalled, rounds_used>>
    /\ UNCHANGED pvars
    /\ UNCHANGED xvars

\* the first completion response carries tool calls: _handle_tool_calls begins
FirstResponseWithToolCalls(resp) ==
    /\ pc = "invoke"
    /\ resp.tool_calls # << >>
    /\ RoundAllowed
    /\ response' = resp
    /\ current_history' = memories[user_id].messages
    /\ iteration' = 0
    /\ executed_searches' = {}
    /\ all_executed_tool_call_ids' = {}
    /\ executed_tool_calls' = {}
    /\ tool_messages' = << >>
    /\ pc' = "loop"
    /\ UNCHANGED <<model, mode, today, memories, current_user_id, user_id,
                   message_body, response_text, error, service_response, request,
                   invoked, round_log, completion_calls, memory_before, stalled, rounds_used,
                   exchanges>>
    /\ UNCHANGED pvars
    /\ UNCHANGED xvars

\* the first completion response carries no tool call: lines 521-534
FirstResponseFinal(resp) ==
    /\ pc = "invoke"
    /\ resp.tool_calls = << >>
    /\ response' = resp
    /\ Finish(resp.content, "final")
    /\ UNCHANGED <<model, mode, today, user_id, message_body, current_history,
                   iteration, executed_searches, all_executed_tool_call_ids,
                   executed_tool_calls, tool_messages, request, invoked, round_log,
                   completion_calls, memory_before, rounds_used, exchanges>>
    /\ UNCHANGED pvars
    /\ UNCHANGED xvars

\* a completion request fails: the exception leaves generate_response
\* (lines 536-541) and process_message turns it into a failure response
CompletionFails ==
    /\ pc \in {"invoke", "reinvoke"}
    /\ error' = "completion failed"
    /\ current_user_id' = ""
    /\ service_response' = ServiceFailure(user_id, "completion failed")
    /\ stalled' = "raised"
    /\ pc' = "raised"
    /\ UNCHANGED <<model, mode, today, memories, user_id, message_body, response,
                   current_history, iteration, executed_searches,
                   all_executed_tool_call_ids, executed_tool_calls, tool_messages,
                   response_text, request, invoked, round_log, completion_calls,
                   memory_before, rounds_used, exchanges>>
    /\ UNCHANGED pvars
    /\ UNCHANGED xvars

\* one pass of the while body, lines 570-925: the batch is executed and the
\* next completion request is sent, or the exchange ends
Round(outs) ==
    /\ pc = "loop"
    /\ LET it == iteration + 1
           history1 == Append(current_history, response)
           S0 == RoundState(<< >>, {}, all_executed_tool_call_ids,
                            executed_searches, invoked)
           S == RunBatch(S0, response.tool_calls, outs, it, context_limits,
                         current_user_id)
           history2 == history1 \o S.tool_messages
       IN /\ iteration' = it
          /\ rounds_used' = rounds_used + 1
          /\ IF Intersects(RequestedKeys(response, it), all_executed_tool_call_ids)
             THEN /\ Finish(StallText(response.content, ActionNotice), "stall")
                  /\ current_history' = history1
                  /\ tool_messages' = << >>
                  /\ executed_tool_calls' = {}
                  /\ round_log' = << >>
                  /\ UNCHANGED <<executed_searches, all_executed_tool_call_ids,
                                 invoked, request, completion_calls>>
             ELSE /\ current_history' = history2
                  /\ executed_searches' = S.executed_searches
                  /\ all_executed_tool_call_ids' = S.all_executed_tool_call_ids
                  /\ executed_tool_calls' = S.executed_tool_calls
                  /\ tool_messages' = S.tool_messages
                  /\ invoked' = S.invoked
                  /\ round_log' = S.log
                  /\ IF S.tool_messages = << >>
                     THEN /\ Finish(response.content, "no_tool_messages")
                          /\ UNCHANGED <<request, completion_calls>>
                     ELSE /\ request' = NextRequestHistory(history2, S.tool_messages,
                                                           context_limits)
                          /\ completion_calls' = completion_calls + 1
                          /\ pc' = "reinvoke"
                          /\ UNCHANGED <<memories, current_user_id, response_text,
                                         error, service_response, stalled>>
    /\ UNCHANGED <<model, mode, today, user_id, message_body, response,
                   memory_before, exchanges>>
    /\ UNCHANGED pvars
    /\ UNCHANGED xvars

\* the completion response that follows a round, lines 929-984
LoopResponse(resp) ==
    /\ pc = "reinvoke"
    /\ response' = resp
    /\ LET new_tool_call_ids == RequestedKeys(resp, iteration)
       IN IF resp.tool_calls = << >>
          THEN Finish(resp.content, "final")
          ELSE IF Intersects(new_tool_call_ids, executed_tool_calls)
          THEN Finish(StallText(resp.content, FlightSearchNotice), "stall")
          ELSE IF Intersects(new_tool_call_ids, all_executed_tool_call_ids)
          THEN Finish(StallText(resp.content, ActionNotice), "stall")
          ELSE /\ RoundAllowed
               /\ IF LoopContinues(iteration)
                  THEN /\ pc' = "loop"
                       /\ UNCHANGED <<memories, current_user_id, response_text,
                                      error, service_response, stalled>>
                  ELSE Finish(resp.content, "max_iterations")
    /\ UNCHANGED <<model, mode, today, user_id, message_body, current_history,
                   iteration, executed_searches, all_executed_tool_call_ids,
                   executed_tool_calls, tool_messages, request, invoked, round_log,
                   completion_calls, memory_before, rounds_used, exchanges>>
    /\ UNCHANGED pvars
    /\ UNCHANGED xvars

\* process_message has returned; the next call may begin
Return ==
    /\ pc \in {"returned", "raised"}
    /\ pc' = "idle"
    /\ user_id' = ""
    /\ message_body' = ""
    /\ response' = NoResponse
    /\ current_history' = << >>
    /\ iteration' = 0
    /\ executed_searches' = {}
    /\ all_executed_tool_call_ids' = {}
    /\ executed_tool_calls' = {}
    /\ tool_messages' = << >>
    /\ response_text' = ""
    /\ error' = ""
    /\ service_response' = NoServiceResponse
    /\ request' = << >>
    /\ invoked' = << >>
    /\ round_log' = << >>
    /\ completion_calls' = 0
    /\ stalled' = ""
    /\ memory_before' = memories
    /\ UNCHANGED <<model, mode, today, memories, current_user_id, rounds_used,
                   exchanges>>
    /\ UNCHANGED pvars
    /\ UNCHANGED xvars

\* clear_memory: del self._memories[user_id]
clear_memory(mems, u) ==
    IF mems[u].present THEN [mems EXCEPT ![u] = NoMemory] ELSE mems

ClearMemory(u) ==
    /\ pc = "idle"
    /\ memories[u].present
    /\ memories' = clear_memory(memories, u)
    /\ memory_before' = memories'
    /\ UNCHANGED <<model, mode, today, current_user_id, pc, user_id,
                   message_body, response, current_history, iteration,
                   executed_searches, all_executed_tool_call_ids,
                   executed_tool_calls, tool_messages, response_text, error,
                   service_response, request, invoked, round_log, completion_calls,
                   stalled, rounds_used, exchanges>>
    /\ UNCHANGED pvars
    /\ UNCHANGED xvars

\* the date changes between two exchanges
Tick ==
    /\ pc = "idle"
    /\ today < MaxDay
    /\ exchanges >= 1
    /\ exchanges < MaxExchanges
    /\ today' = today + 1
    /\ UNCHANGED <<model, mode, memories, current_user_id, pc, user_id,
                   message_body, response, current_history, iteration,
                   executed_searches, all_executed_tool_call_ids,
                   executed_tool_calls, tool_messages, response_text, error,
                   service_response, request, invoked, round_log, completion_calls,
                   memory_before, stalled, rounds_used, exchanges>>
    /\ UNCHANGED pvars
    /\ UNCHANGED xvars

Next ==
    \/ \E u \in Users, m \in MessageBodies : ProcessMessage(u, m)
    \/ \E resp \in Responses : FirstResponseWithToolCalls(resp)
    \/ \E resp \in Responses : FirstResponseFinal(resp)
    \/ CompletionFails
    \/ \E outs \in [1..Len(response.tool_calls) -> OutcomeChoices] : Round(outs)
    \/ \E resp \in Responses : LoopResponse(resp)
    \/ Return
    \/ \E u \in Users : ClearMemory(u)
    \/ Tick

Spec == Init /\ [][Next]_vars

(***************************************************************************)
(* The fare parser (flight_response_parser.py).                            *)
(*                                                                         *)
(* A raw segment carries Departure and Arrival as a day and a minute of    *)
(* the day (-1 when the Date or Time string is absent or malformed) and    *)
(* its own Duration.  A merged date-time string is a stamp: "ok" with the  *)
(* minutes since day 0 when datetime.fromisoformat accepts it, "bad" when  *)
(* it raises ValueError, "missing" for the empty string.                   *)
(***************************************************************************)
Stamp(k, t) == [k |-> k, t |-> t]

\* merge_date_time: f"{date}T{time}:00", never the empty string
merge_date_time(point) ==
    IF point.day >= 0 /\ point.minute >= 0
    THEN Stamp("ok", point.day * 1440 + point.minute)
    ELSE Stamp("bad", 0)

\* the segment dict built at lines 189-209
ParsedSegment(segment) ==
    [departureDateTime |-> merge_date_time(segment.Departure),
     arrivalDateTime |-> merge_date_time(segment.Arrival),
     duration |-> segment.Duration,
     flightNumber |-> segment.FlightNumber]

\* sum(seg.get('duration', 0) for seg in segments)
RECURSIVE SumDurations(_)
SumDurations(segments) ==
    IF segments = << >> THEN 0
    ELSE Head(segments).duration + SumDurations(Tail(segments))

\* lines 62-80: the layovers between consecutive segments whose two stamps
\* are present and parse, counted when positive
RECURSIVE SumLayovers(_)
SumLayovers(segments) ==
    IF Len(segments) < 2 THEN 0
    ELSE LET curr_arrival == segments[1].arrivalDateTime
             next_departure == segments[2].departureDateTime
             layover_minutes == next_departure.t - curr_arrival.t
         IN (IF curr_arrival.k = "ok" /\ next_departure.k = "ok" /\ layover_minutes > 0
             THEN layover_minutes ELSE 0)
            + SumLayovers(Tail(segments))

\* a faulty variant of calculate_total_duration_with_layovers: the fallbacks are
\* lost and no anomaly is detected
duration_span_only(segments) ==
    IF segments = << >> THEN 0
    ELSE segments[Len(segments)].arrivalDateTime.t - segments[1].departureDateTime.t

calculate_total_duration_with_layovers(segments) ==
    IF segments = << >> THEN 0
    ELSE LET departure == segments[1].departureDateTime
             arrival == segments[Len(segments)].arrivalDateTime
             total_minutes == arrival.t - departure.t
         IN IF departure.k = "missing" \/ arrival.k = "missing"
            THEN SumDurations(segments) + SumLayovers(segments)
            ELSE IF departure.k = "bad" \/ arrival.k = "bad"
            THEN SumDurations(segments)
            ELSE IF total_minutes < 0
            THEN SumDurations(segments)
            ELSE total_minutes

\* lines 166-168: legs without Options are passed over
RECURSIVE LegsWithOptions(_)
LegsWithOptions(legs) ==
    IF legs = << >> THEN << >>
    ELSE IF Head(legs).has_options
         THEN <<Head(legs)>> \o LegsWithOptions(Tail(legs))
         ELSE LegsWithOptions(Tail(legs))

ParsedSegments(raw_segments) ==
    [i \in 1..Len(raw_segments) |-> ParsedSegment(raw_segments[i])]

\* lines 163-209: the segments of Options[0] of every leg, in leg order
RECURSIVE AllSegments(_)
AllSegments(legs) ==
    IF legs = << >> THEN << >>
    ELSE ParsedSegments(Head(legs).Segments) \o AllSegments(Tail(legs))

\* lines 230-257: LegNumber 1 is the outbound leg, any other number the
\* return leg; a later leg of the same kind replaces the earlier one
RECURSIVE SplitLegs(_, _, _, _)
SplitLegs(legs, segments, segment_idx, acc) ==
    IF legs = << >> THEN acc
    ELSE LET leg == Head(legs)
             num_segments_in_leg == Len(leg.Segments)
             slice == SubSeq(segments, segment_idx + 1,
                             segment_idx + num_segments_in_leg)
         IN SplitLegs(Tail(legs), segments, segment_idx + num_segments_in_leg,
               IF leg.LegNumber = 1
               THEN [acc EXCEPT !.outbound_segments = slice,
                                !.outbound_option_duration = leg.OptionDuration]
               ELSE [acc EXCEPT !.return_segments = slice,
                                !.return_option_duration = leg.OptionDuration])

NoSplit ==
    [outbound_segments |-> << >>, return_segments |-> << >>,
     outbound_option_duration |-> 0, return_option_duration |-> 0]

\* fare.get('TotalAmountWithFees') or fare.get('TotalAmount') or 0
total_amount(fare) ==
    IF fare.TotalAmountWithFees # 0 THEN fare.TotalAmountWithFees
    ELSE fare.TotalAmount

\* lines 160-278: the option parsed from one fare that carries PaxFares
ParsedOption(fare) ==
    LET legs == LegsWithOptions(fare.Legs)
        segments == AllSegments(legs)
        split == SplitLegs(legs, segments, 0, NoSplit)
    IN [id |-> fare.FareID,
        totalAmount |-> total_amount(fare),
        segments |-> segments,
        outbound_segments |-> split.outbound_segments,
        return_segments |-> split.return_segments,
        is_round_trip |-> Len(legs) > 1,
        outbound_option_duration |-> split.outbound_option_duration,
        return_option_duration |-> split.return_option_duration]

\* lines 156-157: a fare without PaxFares is passed over
RECURSIVE FaresWithPax(_)
FaresWithPax(fares) ==
    IF fares = << >> THEN << >>
    ELSE IF Head(fares).has_pax
         THEN <<Head(fares)>> \o FaresWithPax(Tail(fares))
         ELSE FaresWithPax(Tail(fares))

\* list.sort is stable, with reverse=True too: x goes behind its equals
RECURSIVE InsertOption(_, _, _)
InsertOption(sorted, x, reverse) ==
    IF sorted = << >> THEN <<x>>
    ELSE IF (reverse /\ Head(sorted).totalAmount >= x.totalAmount)
            \/ (~reverse /\ Head(sorted).totalAmount <= x.totalAmount)
         THEN <<Head(sorted)>> \o InsertOption(Tail(sorted), x, reverse)
         ELSE <<x>> \o sorted

RECURSIVE SortInto(_, _, _)
SortInto(sorted, rest, reverse) ==
    IF rest = << >> THEN sorted
    ELSE SortInto(InsertOption(sorted, Head(rest), reverse), Tail(rest), reverse)

\* a faulty variant of SortOptions: the order of the response is kept
SortOptions_unsorted(options, order) == options

\* lines 281-284: parsed_options.sort(key=totalAmount, reverse=most_expensive)
SortOptions(options, order) == SortInto(<< >>, options, order = "most_expensive")

\* lines 364-370 and 381-386: OptionDuration when positive, else computed
LegDuration(option_duration, segments) ==
    IF option_duration > 0 THEN option_duration
    ELSE calculate_total_duration_with_layovers(segments)

outbound_duration(option) ==
    LegDuration(option.outbound_option_duration, option.outbound_segments)

\* lines 380-388
return_duration(option) ==
    IF option.return_segments # << >>
    THEN LegDuration(option.return_option_duration, option.return_segments)
    ELSE 0

\* the option is rendered as a round trip: is_round_trip and return_segments
RenderedRoundTrip(option) ==
    option.is_round_trip /\ option.return_segments # << >>

\* a faulty variant of total_duration: first departure to last arrival for every option
total_duration_span(option) ==
    calculate_total_duration_with_layovers(option.segments)

\* lines 393-403
total_duration(option) ==
    IF RenderedRoundTrip(option)
    THEN outbound_duration(option) + return_duration(option)
    ELSE calculate_total_duration_with_layovers(option.segments)

\* the fields of context_str, lines 441-489; a field the string does not
\* carry is -1
ContextString(option) ==
    IF RenderedRoundTrip(option)
    THEN [FareID |-> option.id, FlightType |-> "RoundTrip",
          TotalPrice |-> option.totalAmount,
          TotalDuration |-> total_duration(option),
          OutboundDuration |-> outbound_duration(option),
          ReturnDuration |-> return_duration(option),
          NumSegments |-> -1,
          OutboundSegments |-> Len(option.outbound_segments),
          ReturnSegments |-> Len(option.return_segments)]
    ELSE [FareID |-> option.id, FlightType |-> "OneWay",
          TotalPrice |-> option.totalAmount,
          TotalDuration |-> total_duration(option),
          OutboundDuration |-> -1,
          ReturnDuration |-> -1,
          NumSegments |-> Len(option.segments),
          OutboundSegments |-> -1,
          ReturnSegments |-> -1]

\* a faulty variant of LimitedOptions: one option too many
LimitedOptions_one_more(options, n) ==
    IF n >= 0 THEN Take(options, n + 1)
    ELSE SubSeq(options, 1, Max(0, Len(options) + n))

\* parsed_options[:limit]
LimitedOptions(options, n) ==
    IF n >= 0 THEN Take(options, n)
    ELSE SubSeq(options, 1, Max(0, Len(options) + n))

\* a faulty variant of ResponseError: an empty Fares list is let through
ResponseError_empty_ok(resp) ==
    CASE resp.shape \in {"empty", "no_fares"} ->
            "Invalid response: response.Fares is missing"
      [] resp.shape = "not_list" ->
            "Invalid response: response.Fares is not an array"
      [] OTHER -> ""

\* lines 141-149: the ValueError raised for the response, "" when none is
ResponseError(resp) ==
    CASE resp.shape \in {"empty", "no_fares"} ->
            "Invalid response: response.Fares is missing"
      [] resp.shape = "not_list" ->
            "Invalid response: response.Fares is not an array"
      [] resp.Fares = << >> -> "No fares found in response"
      [] OTHER -> ""

\* a faulty variant of ParsedOptions: fares without PaxFares are parsed too
ParsedOptions_all(fares) ==
    [i \in 1..Len(fares) |-> ParsedOption(fares[i])]

\* lines 151-278: parsed_options before the sort
ParsedOptions(fares) ==
    LET kept == FaresWithPax(fares)
    IN [i \in 1..Len(kept) |-> ParsedOption(kept[i])]

\* parse_flight_search_response: `error` is the message of the ValueError
\* raised, "" when the call returns
parse_flight_search_response(resp, order, n) ==
    IF ResponseError(resp) # ""
    THEN [error |-> ResponseError(resp), options |-> << >>,
          allFlightsContext |-> << >>, totalCount |-> 0]
    ELSE LET parsed_options == SortOptions(ParsedOptions(resp.Fares), order)
         IN [error |-> "",
             options |-> LimitedOptions(parsed_options, n),
             allFlightsContext |->
                 [i \in 1..Len(parsed_options) |-> ContextString(parsed_options[i])],
             totalCount |-> Len(parsed_options)]

(***************************************************************************)
(* The functions applied on their own: calculate_context_limits, the       *)
(* shaping of a fare-search Tool message, parse_flight_search_response.    *)
(***************************************************************************)
\* fares in one response
MaxFares == 3
\* largest limit passed to the parser
MaxLimit == 3
\* flights in the context list of one search result
MaxFlights == 7

Point(day, minute) == [day |-> day, minute |-> minute]
Segment(departure, arrival, duration, flight_number) ==
    [Departure |-> departure, Arrival |-> arrival, Duration |-> duration,
     FlightNumber |-> flight_number]
Leg(leg_number, has_options, option_duration, segments) ==
    [LegNumber |-> leg_number, has_options |-> has_options,
     OptionDuration |-> option_duration, Segments |-> segments]
Fare(fare_id, has_pax, total, with_fees, legs) ==
    [FareID |-> fare_id, has_pax |-> has_pax, TotalAmount |-> total,
     TotalAmountWithFees |-> with_fees, Legs |-> legs]

\* 08:00 -> 10:00, 12:00 -> 14:30 on day 0
MorningSegments ==
    << Segment(Point(0, 480), Point(0, 600), 120, 11),
       Segment(Point(0, 720), Point(0, 870), 150, 12) >>

\* one way, the provider gives the leg 420 minutes
FareProvided == Fare("F1", TRUE, 300, 0, << Leg(1, TRUE, 420, MorningSegments) >>)
\* one way, no provider duration
FareComputed == Fare("F2", TRUE, 250, 200, << Leg(1, TRUE, 0, MorningSegments) >>)
\* round trip, 300 out and 280 back by the provider
FareRoundTrip ==
    Fare("F3", TRUE, 500, 0,
         << Leg(1, TRUE, 300, << Segment(Point(0, 480), Point(0, 770), 290, 31) >>),
            Leg(2, TRUE, 280, << Segment(Point(7, 600), Point(7, 870), 270, 32) >>) >>)
\* no passenger data
FareNoPax == Fare("F4", FALSE, 100, 0, << Leg(1, TRUE, 420, MorningSegments) >>)
\* arrival before departure (local times across time zones)
FareAnomaly ==
    Fare("F5", TRUE, 300, 0,
         << Leg(1, TRUE, 0, << Segment(Point(0, 600), Point(0, 540), 60, 51) >>) >>)
\* three legs: the first with 420 minutes by the provider, the last arriving
\* before it departs (local times) and without provider duration
FareMultiCity ==
    Fare("F6", TRUE, 700, 0,
         << Leg(1, TRUE, 420, MorningSegments),
            Leg(2, TRUE, 0, << Segment(Point(3, 480), Point(3, 570), 90, 62) >>),
            Leg(3, TRUE, 0, << Segment(Point(6, 600), Point(6, 540), 60, 63) >>) >>)
\* round trip whose return leg has no usable arrival time and no provider
\* duration
FareBadStamp ==
    Fare("F7", TRUE, 400, 0,
         << Leg(1, TRUE, 0, MorningSegments),
            Leg(2, TRUE, 0, << Segment(Point(7, 600), Point(7, 700), 100, 72),
                               Segment(Point(7, 760), Point(-1, -1), 110, 73) >>) >>)
\* the first leg carries no Options
FareNoOptions ==
    Fare("F8", TRUE, 150, 0,
         << Leg(1, FALSE, 0, << >>),
            Leg(2, TRUE, 0, << Segment(Point(7, 600), Point(7, 880), 270, 82) >>) >>)

FareAlphabet ==
    {FareProvided, FareComputed, FareRoundTrip, FareNoPax, FareAnomaly,
     FareMultiCity, FareBadStamp, FareNoOptions}

FareLists == UNION {[1..n -> FareAlphabet] : n \in 0..MaxFares}

RawResponses ==
    {[shape |-> sh, Fares |-> << >>] : sh \in {"empty", "no_fares", "not_list"}}
    \cup {[shape |-> "list", Fares |-> fs] : fs \in FareLists}

SortOrders == {"cheapest", "most_expensive"}
Limits == (-1)..MaxLimit

Capacities == {8192, 9279, 9280, 16385, 128000}

FlightLengths == {400, 1400, 2500}
ContextLists ==
    {[i \in 1..n |-> len] : n \in 0..MaxFlights, len \in FlightLengths}

\* the main variables at rest
MainOff ==
    /\ model = "gpt-4o-mini"
    /\ mode = "wide"
    /\ IdleState

mvars == <<model, mode, today, memories, current_user_id, pc, user_id,
           message_body, response, current_history, iteration,
           executed_searches, all_executed_tool_call_ids, executed_tool_calls,
           tool_messages, response_text, error, service_response, request,
           invoked, round_log, completion_calls, memory_before, stalled,
           rounds_used, exchanges>>

PureInit ==
    /\ MainOff
    /\ RegistryOff
    /\ ThreadsOff
    /\ OthersOff
    /\ ppc = "ready"
    /\ limits1 = NoLimits
    /\ limits2 = NoLimits
    /\ shape_out = NoBody
    /\ parsed = NoParsed
    /\ \/ /\ pkind = "limits"
          /\ cap1 \in Capacities
          /\ cap2 \in Capacities
          /\ shape_model = "" /\ shape_ctx = << >> /\ shape_fares = "valid"
          /\ raw = NoRaw /\ sort_order = "cheapest" /\ limit = 0
       \/ /\ pkind = "shape"
          /\ shape_model \in DOMAIN MODEL_TOKEN_LIMITS
          /\ shape_ctx \in ContextLists
          /\ shape_fares \in {"valid", "invalid"}
          /\ cap1 = 0 /\ cap2 = 0
          /\ raw = NoRaw /\ sort_order = "cheapest" /\ limit = 0
       \/ /\ pkind = "parse"
          /\ raw \in RawResponses
          /\ sort_order \in SortOrders
          /\ limit \in Limits
          /\ cap1 = 0 /\ cap2 = 0
          /\ shape_model = "" /\ shape_ctx = << >> /\ shape_fares = "valid"

\* calculate_context_limits for two capacities
CalculateLimits ==
    /\ pkind = "limits" /\ ppc = "ready"
    /\ limits1' = LimitsForCapacity(cap1)
    /\ limits2' = LimitsForCapacity(cap2)
    /\ ppc' = "done"
    /\ UNCHANGED <<pkind, cap1, cap2, shape_model, shape_ctx, shape_fares,
                   shape_out, raw,
                   sort_order, limit, parsed>>
    /\ UNCHANGED mvars
    /\ UNCHANGED xvars

\* a successful search result with the context list `ctx`; json.dumps of
\* the handler's result holds the fares the context was rendered from
SearchResult(ctx) ==
    HandlerResult("true", "", shape_fares, ctx, 2000 + JsonListLen(ctx))

\* lines 670-779 for a successful fare search
ShapeToolMessage ==
    /\ pkind = "shape" /\ ppc = "ready"
    /\ shape_out' = ToolMessageBody("search_flights", SearchResult(shape_ctx),
                                    calculate_context_limits(shape_model))
    /\ ppc' = "done"
    /\ UNCHANGED <<pkind, cap1, cap2, limits1, limits2, shape_model, shape_ctx, shape_fares,
                   raw, sort_order, limit, parsed>>
    /\ UNCHANGED mvars
    /\ UNCHANGED xvars

ParseResponse ==
    /\ pkind = "parse" /\ ppc = "ready"
    /\ parsed' = parse_flight_search_response(raw, sort_order, limit)
    /\ ppc' = "done"
    /\ UNCHANGED <<pkind, cap1, cap2, limits1, limits2, shape_model, shape_ctx, shape_fares,
                   shape_out, raw, sort_order, limit>>
    /\ UNCHANGED mvars
    /\ UNCHANGED xvars

PureNext ==
    \/ CalculateLimits
    \/ ShapeToolMessage
    \/ ParseResponse

PureSpec == PureInit /\ [][PureNext]_vars

(***************************************************************************)
(* The handler registry (vertical_manager.py).                             *)
(***************************************************************************)
MaxRegistrations == 3

SearchHandler == Handler("SearchFlightsHandler", "search_flights", TRUE)
\* a second handler object that answers to the same function name
OtherSearchHandler == Handler("HotelSearchHandler", "search_flights", TRUE)
ViewHandler == Handler("ViewBookingHandler", "view_booking", TRUE)
\* get_function_name() returns ""
NamelessHandler == Handler("NamelessHandler", "", TRUE)
\* an object that does not implement IFunctionHandler
NotAHandler == Handler("object", "search_flights", FALSE)
HandlerObjects ==
    {SearchHandler, OtherSearchHandler, ViewHandler, NamelessHandler, NotAHandler}

\* a faulty variant of register_handler: a name already present keeps its handler
register_handler_keep_first(reg, handler, vertical) ==
    IF ~handler.is_handler
    THEN [raised |-> "Handler must implement IFunctionHandler", registry |-> reg]
    ELSE IF handler.function_name = ""
    THEN [raised |-> "Handler must return a valid function name", registry |-> reg]
    ELSE [raised |-> "",
          registry |->
             [handlers |->
                 IF reg.handlers[handler.function_name] = NoHandler
                 THEN [reg.handlers EXCEPT ![handler.function_name] = handler]
                 ELSE reg.handlers,
              vertical_handlers |->
                 [reg.vertical_handlers EXCEPT ![vertical] = Append(@, handler)]]]

\* VerticalManager.register_handler: the ValueError raised, or the registry
\* after the call
register_handler(reg, handler, vertical) ==
    IF ~handler.is_handler
    THEN [raised |-> "Handler must implement IFunctionHandler", registry |-> reg]
    ELSE IF handler.function_name = ""
    THEN [raised |-> "Handler must return a valid function name", registry |-> reg]
    ELSE [raised |-> "",
          registry |->
             [handlers |-> [reg.handlers EXCEPT ![handler.function_name] = handler],
              vertical_handlers |->
                 [reg.vertical_handlers EXCEPT ![vertical] = Append(@, handler)]]]

\* VerticalManager.get_handler: self._handlers.get(function_name)
get_handler(reg, function_name) ==
    IF function_name \in DOMAIN reg.handlers THEN reg.handlers[function_name]
    ELSE NoHandler

\* VerticalManager.get_all_handlers: the function names that have a handler
get_all_handlers(reg) ==
    {n \in DOMAIN reg.handlers : reg.handlers[n] # NoHandler}

\* VerticalManager.get_handlers_by_vertical: a copy of the vertical's list
get_handlers_by_vertical(reg, vertical) ==
    IF vertical \in DOMAIN reg.vertical_handlers
    THEN reg.vertical_handlers[vertical] ELSE << >>

RegisterHandler(handler, vertical) ==
    /\ Len(register_calls) < MaxRegistrations
    /\ LET r == register_handler(registry, handler, vertical)
       IN /\ registry' = r.registry
          /\ register_calls' = Append(register_calls,
                                      [handler |-> handler, vertical |-> vertical,
                                       raised |-> r.raised])
    /\ UNCHANGED <<threads, search_cache, clock, handled, api_log>>
    /\ UNCHANGED ovars
    /\ UNCHANGED mvars
    /\ UNCHANGED pvars

RegistryInit == MainOff /\ PureOff /\ RegistryOff /\ ThreadsOff /\ OthersOff

RegistryNext ==
    \E handler \in HandlerObjects, vertical \in Verticals :
        RegisterHandler(handler, vertical)

RegistrySpec == RegistryInit /\ [][RegistryNext]_vars

(***************************************************************************)
(* Parallel calls of generate_response on one provider, and the search     *)
(* cache of search_flights_handler.py.  A thread is interleaved with the   *)
(* others wherever it reads or writes the provider, the stored             *)
(* conversations or the cache.                                             *)
(***************************************************************************)
MaxClock == 2
cache_ttl == 30

\* the variables the parallel calls leave alone
crest == <<model, mode, today, pc, user_id, message_body, response,
           current_history, iteration, executed_searches,
           all_executed_tool_call_ids, executed_tool_calls, tool_messages,
           response_text, error, service_response, request, invoked, round_log,
           completion_calls, memory_before, stalled, rounds_used, exchanges,
           registry, register_calls, ovars>>

\* the message each thread processes, and the reply the model gives to it
ThreadMessage(t) == IF t = "t1" THEN "find me a flight" ELSE "and a hotel"
ReplyTo(message) ==
    IF message = "find me a flight" THEN "Here are the flights"
    ELSE "Here are the hotels"

\* seconds between two readings of time.time()
Age(cached_time) == (clock - cached_time) * 15

\* generate_response line 491: self._current_user_id = user_id
Begin(t, u) ==
    /\ threads[t].pc = "idle"
    /\ current_user_id' = u
    /\ threads' = [threads EXCEPT ![t] = [@ EXCEPT !.pc = "begun", !.user_id = u,
                                            !.message_body = ThreadMessage(t)]]
    /\ UNCHANGED <<memories, search_cache, clock, handled, api_log>>
    /\ UNCHANGED crest
    /\ UNCHANGED pvars

\* lines 494-497: memory = self._get_memory(user_id); add_user_message
AddUserMessage(t) ==
    /\ threads[t].pc = "begun"
    /\ memories' = add_message(get_memory(memories, threads[t].user_id, today),
                               threads[t].user_id,
                               HumanMessage(threads[t].message_body))
    /\ threads' = [threads EXCEPT ![t].pc = "added"]
    /\ UNCHANGED <<current_user_id, search_cache, clock, handled, api_log>>
    /\ UNCHANGED crest
    /\ UNCHANGED pvars

\* lines 503-525: the completion response asks for a fare search with the
\* given payload, or is final
Invoke(t, tool_calls, payload_hash) ==
    /\ threads[t].pc = "added"
    /\ tool_calls <=> payload_hash \in PayloadHashes
    /\ threads' = [threads EXCEPT ![t] =
                      [@ EXCEPT !.pc = IF tool_calls THEN "tool" ELSE "reply",
                                !.tool_calls = tool_calls,
                                !.payload_hash = payload_hash]]
    /\ UNCHANGED <<current_user_id, memories, search_cache, clock, handled, api_log>>
    /\ UNCHANGED crest
    /\ UNCHANGED pvars

\* tool_func lines 403-407: user_id = self._current_user_id or "", then
\* handler.handle(kwargs, user_id=user_id)
ToolFunc(t) ==
    /\ threads[t].pc = "tool"
    /\ threads' = [threads EXCEPT ![t] = [@ EXCEPT !.pc = "check",
                                            !.handler_user_id = current_user_id]]
    /\ handled' = Append(handled, [thread |-> t, requested_by |-> threads[t].user_id,
                                   user_id |-> current_user_id])
    /\ UNCHANGED <<current_user_id, memories, search_cache, clock, api_log>>
    /\ UNCHANGED crest
    /\ UNCHANGED pvars

\* line 523: cache_key = (user_id, payload_hash)
cache_key(t) == <<threads[t].handler_user_id, threads[t].payload_hash>>

\* a faulty variant of Expired: an entry of exactly cache_ttl seconds is kept
Expired_late(cached_time) == Age(cached_time) > cache_ttl

\* lines 530-533: current_time - v[1] >= _cache_ttl
Expired(cached_time) == Age(cached_time) >= cache_ttl

\* SearchFlightsHandler.handle lines 526-544, under _cache_lock: expired
\* entries are deleted, a cached result is returned
CacheCheck(t) ==
    /\ threads[t].pc = "check"
    /\ LET live == {e \in search_cache : ~Expired(e.time)}
           hits == {e \in live : e.key = cache_key(t)}
       IN /\ search_cache' = live
          /\ threads' =
                [threads EXCEPT ![t] =
                    IF hits # {}
                    THEN LET e == CHOOSE e \in hits : TRUE
                         IN [@ EXCEPT !.pc = "reply",
                                      !.cached = [key |-> e.key, age |-> Age(e.time)]]
                    ELSE [@ EXCEPT !.pc = "call"]]
    /\ UNCHANGED <<current_user_id, memories, clock, handled, api_log>>
    /\ UNCHANGED crest
    /\ UNCHANGED pvars

\* lines 553-558 and 577-583: search_flight_availability returns or raises
ApiCall(t, ok) ==
    /\ threads[t].pc = "call"
    /\ api_log' = Append(api_log, [thread |-> t,
                                   user_id |-> threads[t].handler_user_id,
                                   requested_by |-> threads[t].user_id,
                                   payload_hash |-> threads[t].payload_hash,
                                   time |-> clock, ok |-> ok])
    /\ threads' = [threads EXCEPT ![t].pc = IF ok THEN "store" ELSE "reply"]
    /\ UNCHANGED <<current_user_id, memories, search_cache, clock, handled>>
    /\ UNCHANGED crest
    /\ UNCHANGED pvars

\* lines 571-572, under _cache_lock: _search_cache[cache_key] = (result, time.time())
CacheStore(t) ==
    /\ threads[t].pc = "store"
    /\ search_cache' =
          {e \in search_cache : e.key # cache_key(t)}
          \cup {[key |-> cache_key(t), time |-> clock]}
    /\ threads' = [threads EXCEPT ![t].pc = "reply"]
    /\ UNCHANGED <<current_user_id, memories, clock, handled, api_log>>
    /\ UNCHANGED crest
    /\ UNCHANGED pvars

\* line 532: memory.add_ai_message(response_text)
Reply(t) ==
    /\ threads[t].pc = "reply"
    /\ memories' = add_message(memories, threads[t].user_id,
                               AIMessage(ReplyTo(threads[t].message_body), << >>))
    /\ threads' = [threads EXCEPT ![t] =
                      [@ EXCEPT !.pc = "finally",
                                !.response_text = ReplyTo(threads[t].message_body)]]
    /\ UNCHANGED <<current_user_id, search_cache, clock, handled, api_log>>
    /\ UNCHANGED crest
    /\ UNCHANGED pvars

\* lines 539-541: finally: self._current_user_id = None
Finally(t) ==
    /\ threads[t].pc = "finally"
    /\ current_user_id' = ""
    /\ threads' = [threads EXCEPT ![t].pc = "done"]
    /\ UNCHANGED <<memories, search_cache, clock, handled, api_log>>
    /\ UNCHANGED crest
    /\ UNCHANGED pvars

\* 15 seconds pass
ClockTick ==
    /\ clock < MaxClock
    /\ clock' = clock + 1
    /\ UNCHANGED <<current_user_id, memories, threads, search_cache, handled, api_log>>
    /\ UNCHANGED crest
    /\ UNCHANGED pvars

ParallelInit == MainOff /\ PureOff /\ RegistryOff /\ ThreadsOff /\ OthersOff

ParallelNext ==
    \/ \E t \in Threads, u \in Users : Begin(t, u)
    \/ \E t \in Threads : AddUserMessage(t)
    \/ \E t \in Threads, tool_calls \in BOOLEAN, payload_hash \in PayloadHashes \cup {""} :
          Invoke(t, tool_calls, payload_hash)
    \/ \E t \in Threads : ToolFunc(t)
    \/ \E t \in Threads : CacheCheck(t)
    \/ \E t \in Threads, ok \in BOOLEAN : ApiCall(t, ok)
    \/ \E t \in Threads : CacheStore(t)
    \/ \E t \in Threads : Reply(t)
    \/ \E t \in Threads : Finally(t)
    \/ ClockTick

ParallelSpec == ParallelInit /\ [][ParallelNext]_vars

(***************************************************************************)
(* The conversation repository (conversation_repository.py).  A call reads  *)
(* the key with redis.get and writes it back with redis.setex; two callers  *)
(* are interleaved between the two commands.                                *)
(***************************************************************************)
MaxRepoCalls == 3
MaxKeep == 2

Roles == {"system", "user"}
RepoMessage(role, content) == [role |-> role, content |-> content]
NoRepoMessage == RepoMessage("", 0)

\* the repository calls begun so far; the next message is numbered after it
Started == Len(repo_log) + Cardinality({w \in Workers : workers[w].pc # "idle"})

\* get_conversation: the stored list, or None
get_conversation(u) == redis[u]

\* save_conversation: redis.setex(key, ttl, json.dumps(messages))
save_conversation(u, messages) == [redis EXCEPT ![u] = Conversation(messages)]

SystemMessages(messages) == SelectSeq(messages, LAMBDA m : m.role = "system")
OtherMessages(messages) == SelectSeq(messages, LAMBDA m : m.role # "system")

\* Python's s[-n:] for n >= 0: -0 is 0, so s[-0:] is the whole list
Suffix(s, n) == IF n = 0 THEN s ELSE LastN(s, n)

\* clear_old_messages lines 232-239: system_messages + other_messages[-keep_last_n:]
new_messages(messages, keep_last_n) ==
    SystemMessages(messages) \o Suffix(OtherMessages(messages), keep_last_n)

\* a call of the repository that has returned
RepoCall(w, saved, message) ==
    [op |-> workers[w].op, user_id |-> workers[w].user_id,
     keep_last_n |-> workers[w].keep_last_n, read |-> workers[w].read,
     saved |-> saved, messages |-> workers[w].messages, message |-> message]

\* add_message lines 131-149: the conversation is read and the message is
\* appended to the list in the caller's memory
AddMessageGet(w, u, role) ==
    /\ workers[w].pc = "idle"
    /\ Started < MaxRepoCalls
    /\ workers' = [workers EXCEPT ![w] =
                      [pc |-> "add_save", op |-> "add_message", user_id |-> u,
                       keep_last_n |-> 0, read |-> get_conversation(u),
                       messages |-> Append(get_conversation(u).messages,
                                           RepoMessage(role, Started + 1))]]
    /\ UNCHANGED <<redis, repo_log>>
    /\ UNCHANGED mvars
    /\ UNCHANGED pvars
    /\ UNCHANGED yvars
    /\ UNCHANGED cvars
    /\ UNCHANGED avars

\* add_message line 152: save_conversation(user_id, messages)
AddMessageSave(w) ==
    /\ workers[w].pc = "add_save"
    /\ redis' = save_conversation(workers[w].user_id, workers[w].messages)
    /\ repo_log' = Append(repo_log,
                          RepoCall(w, TRUE,
                                   workers[w].messages[Len(workers[w].messages)]))
    /\ workers' = [workers EXCEPT ![w] = IdleWorker]
    /\ UNCHANGED mvars
    /\ UNCHANGED pvars
    /\ UNCHANGED yvars
    /\ UNCHANGED cvars
    /\ UNCHANGED avars

\* clear_old_messages lines 224-239: nothing to clear, or the list to store
ClearOldMessagesGet(w, u, keep_last_n) ==
    /\ workers[w].pc = "idle"
    /\ Started < MaxRepoCalls
    /\ LET messages == get_conversation(u).messages
           call == [pc |-> "clear_save", op |-> "clear_old_messages", user_id |-> u,
                    keep_last_n |-> keep_last_n, read |-> get_conversation(u),
                    messages |-> messages]
       IN IF messages = << >> \/ Len(messages) <= keep_last_n
          THEN /\ repo_log' = Append(repo_log,
                                     [op |-> call.op, user_id |-> u,
                                      keep_last_n |-> keep_last_n,
                                      read |-> call.read, saved |-> FALSE,
                                      messages |-> messages,
                                      message |-> NoRepoMessage])
               /\ UNCHANGED workers
          ELSE /\ workers' = [workers EXCEPT ![w] =
                                 [call EXCEPT !.messages =
                                     new_messages(messages, keep_last_n)]]
               /\ UNCHANGED repo_log
    /\ UNCHANGED redis
    /\ UNCHANGED mvars
    /\ UNCHANGED pvars
    /\ UNCHANGED yvars
    /\ UNCHANGED cvars
    /\ UNCHANGED avars

\* clear_old_messages line 246: save_conversation(user_id, new_messages)
ClearOldMessagesSave(w) ==
    /\ workers[w].pc = "clear_save"
    /\ redis' = save_conversation(workers[w].user_id, workers[w].messages)
    /\ repo_log' = Append(repo_log, RepoCall(w, TRUE, NoRepoMessage))
    /\ workers' = [workers EXCEPT ![w] = IdleWorker]
    /\ UNCHANGED mvars
    /\ UNCHANGED pvars
    /\ UNCHANGED yvars
    /\ UNCHANGED cvars
    /\ UNCHANGED avars

RepositoryInit == MainOff /\ PureOff /\ RegistryOff /\ ThreadsOff /\ OthersOff

RepositoryNext ==
    \/ \E w \in Workers, u \in Users, role \in Roles : AddMessageGet(w, u, role)
    \/ \E w \in Workers : AddMessageSave(w)
    \/ \E w \in Workers, u \in Users, keep_last_n \in 0..MaxKeep :
          ClearOldMessagesGet(w, u, keep_last_n)
    \/ \E w \in Workers : ClearOldMessagesSave(w)

RepositorySpec == RepositoryInit /\ [][RepositoryNext]_vars

(***************************************************************************)
(* The cancel_booking handler (cancel_booking_handler.py).                  *)
(***************************************************************************)
Bool(b) == Value("bool", b)
Str(x) == Value("str", x)
\* the values a completion response may put into "confirmation"
Confirmations ==
    {Absent, Value("none", "None"), Value("int", "1"), Value("int", "0"),
     Bool("True"), Bool("False")}
    \cup {Str(x) : x \in {"true", "True", "TRUE", "yes", "Yes", "1", "false",
                          "no", "0", "maybe", ""}}
BookingIds == {Absent, Str(""), Str("BK1")}
CancelParameters ==
    {[booking_id |-> b, confirmation |-> c] : b \in BookingIds, c \in Confirmations}

\* str.lower() on the strings above
Lower(x) ==
    CASE x \in {"True", "TRUE"} -> "true"
      [] x = "Yes" -> "yes"
      [] OTHER -> x

\* validate_parameters, lines 62-97
validate_parameters(params) ==
    /\ params.booking_id # Absent
    /\ params.confirmation # Absent
    /\ params.booking_id.value # ""
    /\ \/ params.confirmation.type = "bool"
       \/ /\ params.confirmation.type = "str"
          /\ Lower(params.confirmation.value)
                \in {"true", "false", "yes", "no", "1", "0"}

\* a faulty variant of Confirmed: the string is tested as it is, and every
\* non-empty string is true
Confirmed_unconverted(confirmation) ==
    IF confirmation.type = "str" THEN confirmation.value # ""
    ELSE confirmation.value = "True"

\* lines 124-129: a string is converted, then `not confirmation` is tested
Confirmed(confirmation) ==
    IF confirmation.type = "str"
    THEN Lower(confirmation.value) \in {"true", "yes", "1"}
    ELSE confirmation.value = "True"

CancelResult(raised, success, cancelled, err) ==
    [raised |-> raised, success |-> success, cancelled |-> cancelled,
     error |-> err]

\* what api_client.cancel_booking does: returns True or False, or raises
ApiOutcomes == {"true", "false", "value_error", "error"}

\* CancelBookingHandler.handle, lines 99-179
CancelHandle(api) ==
    /\ cancel_pc = "ready"
    /\ cancel_pc' = "done"
    /\ IF ~validate_parameters(parameters)
       THEN /\ cancel_result' =
                  CancelResult("Invalid parameters for cancel_booking",
                               "none", "none", "")
            /\ UNCHANGED cancel_calls
       ELSE IF ~Confirmed(parameters.confirmation)
       THEN /\ cancel_result' =
                  CancelResult("", "false", "false",
                               "Cancellation requires user confirmation")
            /\ UNCHANGED cancel_calls
       ELSE /\ cancel_calls' =
                  Append(cancel_calls,
                         [booking_id |-> parameters.booking_id.value,
                          user_id |-> cancel_user_id, confirmation |-> TRUE])
            /\ cancel_result' =
                  CASE api = "true" -> CancelResult("", "true", "true", "")
                    [] api = "false" ->
                         CancelResult("", "false", "false", "Failed to cancel booking")
                    [] api = "value_error" ->
                         CancelResult("", "false", "false", "invalid booking")
                    [] OTHER ->
                         CancelResult("", "false", "false",
                                      "Failed to cancel booking: timeout")
    /\ UNCHANGED <<parameters, cancel_user_id>>
    /\ UNCHANGED mvars
    /\ UNCHANGED pvars
    /\ UNCHANGED yvars
    /\ UNCHANGED rvars
    /\ UNCHANGED avars

CancelInit ==
    /\ MainOff /\ PureOff /\ RegistryOff /\ ThreadsOff /\ RepositoryOff /\ RunOff
    /\ cancel_pc = "ready"
    /\ parameters \in CancelParameters
    /\ cancel_user_id \in Users
    /\ cancel_result = NoCancelResult
    /\ cancel_calls = << >>

CancelNext == \E api \in ApiOutcomes : CancelHandle(api)

CancelSpec == CancelInit /\ [][CancelNext]_vars

(***************************************************************************)
(* OpenAIProvider._run_assistant_optimized (openai_provider.py): the run    *)
(* is polled until it reaches a terminal status.                            *)
(***************************************************************************)
max_attempts == 120
\* the retrievals followed by the model; the code has no such limit
MaxRetrievals == 122

TerminalStatuses == {"completed", "failed", "cancelled", "expired"}
\* what runs.retrieve may report
RunStatuses == {"queued", "in_progress", "requires_action"} \cup TerminalStatuses

\* lines 266-271: a pass that handled function calls ends with `continue`,
\* before attempt += 1
CountsAttempt(status) == status # "requires_action"

\* the condition of the while loop, line 246
LoopRuns == run_status \notin TerminalStatuses /\ attempt < max_attempts

\* one pass of the while body, lines 247-271: sleep, retrieve, handle the
\* function calls when the run requires action
Retrieve(status) ==
    /\ run_pc = "polling"
    /\ LoopRuns
    /\ retrievals < MaxRetrievals
    /\ retrievals' = retrievals + 1
    /\ run_status' = status
    /\ attempt' = IF CountsAttempt(status) THEN attempt + 1 ELSE attempt
    /\ UNCHANGED run_pc
    /\ UNCHANGED mvars
    /\ UNCHANGED pvars
    /\ UNCHANGED yvars
    /\ UNCHANGED rvars
    /\ UNCHANGED cvars

\* lines 273-294: the loop has ended; the reply is returned, or an error is
\* raised for a run that did not complete or left no message
EndRun(has_messages) ==
    /\ run_pc = "polling"
    /\ ~LoopRuns
    /\ run_pc' = IF run_status = "completed" /\ has_messages
                 THEN "returned" ELSE "raised"
    /\ UNCHANGED <<run_status, attempt, retrievals>>
    /\ UNCHANGED mvars
    /\ UNCHANGED pvars
    /\ UNCHANGED yvars
    /\ UNCHANGED rvars
    /\ UNCHANGED cvars

\* runs.create, lines 236-244
RunInit ==
    /\ MainOff /\ PureOff /\ RegistryOff /\ ThreadsOff /\ RepositoryOff /\ CancelOff
    /\ run_pc = "polling"
    /\ run_status \in {"queued", "in_progress"}
    /\ attempt = 0
    /\ retrievals = 0

RunNext ==
    \/ \E status \in RunStatuses : Retrieve(status)
    \/ \E has_messages \in BOOLEAN : EndRun(has_messages)

RunSpec == RunInit /\ [][RunNext]_vars

(***************************************************************************)
(* Properties.                                                             *)
(***************************************************************************)
\* C1: one call of generate_response runs at most 10 tool rounds and sends at
\* most 11 completion requests; a round only starts while fewer than 10 have
\* run, and nothing but a failed completion request makes the call raise.
C1_LoopBound ==
    /\ iteration <= max_iterations
    /\ completion_calls <= max_iterations + 1
    /\ (pc = "loop" => iteration < max_iterations)
    /\ (pc = "reinvoke" => completion_calls = iteration + 1)
    /\ (pc = "raised" => error = "completion failed")
    /\ (pc = "returned" => error = "" /\ service_response.response_text = response_text)

\* C1 witness: the exchange was cut by the loop bound after 10 rounds and 11
\* completion requests.
C1_Witness ==
    /\ pc = "returned"
    /\ stalled = "max_iterations"
    /\ iteration = max_iterations
    /\ completion_calls = max_iterations + 1
    /\ response.tool_calls # << >>

\* C2: a response after a round that requests only identity keys already
\* executed ends the exchange at once: no round is started for it, no handler
\* runs again, and the text returned is the response's text or, when that is
\* blank, a completion notice; when round 2 repeats the single id of round 1
\* the handler has run exactly once and two completion requests were sent.
C2_StallEndsExchange ==
    LET keys == RequestedKeys(response, iteration)
        repeats == /\ iteration >= 1
                   /\ response.tool_calls # << >>
                   /\ keys \subseteq all_executed_tool_call_ids
    IN /\ (pc = "loop" => ~repeats)
       /\ (pc = "returned" /\ repeats =>
             /\ stalled = "stall"
             /\ IF IsBlank(response.content)
                THEN response_text \in {FlightSearchNotice, ActionNotice}
                ELSE response_text = response.content
             /\ Len(invoked) = Cardinality(all_executed_tool_call_ids)
             /\ completion_calls = iteration + 1
             /\ (iteration = 1 /\ Cardinality(all_executed_tool_call_ids) = 1
                   => Len(invoked) = 1 /\ completion_calls = 2))

\* C2 witness: round 2 repeated round 1's id with a blank text and the notice
\* was returned after one handler invocation.
C2_Witness ==
    /\ pc = "returned"
    /\ stalled = "stall"
    /\ iteration = 1
    /\ Len(invoked) = 1
    /\ RequestedKeys(response, 1) = all_executed_tool_call_ids
    /\ response.content = ""
    /\ response_text = FlightSearchNotice

\* C3: within one exchange no identity key has two handler invocations.
C3_AtMostOncePerKey ==
    \A i, j \in DOMAIN invoked : i # j => invoked[i].key # invoked[j].key

\* C3 witness: a batch repeated an identity key and the repeat was skipped
\* after the first call had run its handler.
C3_Witness ==
    /\ Len(invoked) = 1
    /\ \E i \in DOMAIN round_log :
          /\ round_log[i].what = "skipped"
          /\ round_log[i].name = "view_booking"
          /\ round_log[i].key = invoked[1].key

\* at most one search_flights handler invocation per argument set, the
\* arguments compared in key order
SearchOncePerArguments ==
    \A i, j \in DOMAIN invoked :
        (/\ i # j
         /\ invoked[i].name = "search_flights"
         /\ invoked[j].name = "search_flights")
        => search_key(invoked[i].args) # search_key(invoked[j].args)

DuplicateAnswered(entry) ==
    /\ entry.what = "duplicate"
    /\ \E k \in DOMAIN tool_messages :
          tool_messages[k] = ToolMessage(DuplicateSearchBody, entry.key)

C5_HandlerErrorRecovered ==
    \A i \in DOMAIN invoked :
        invoked[i].raised =>
           /\ pc # "raised" \/ error = "completion failed"
           /\ completion_calls >= invoked[i].it + 1
           /\ \E k \in DOMAIN current_history :
                 /\ current_history[k].role = "tool"
                 /\ current_history[k].tool_call_id = invoked[i].key
                 /\ Deserializes(current_history[k].body)
                 /\ current_history[k].body.success = "false"
                 /\ current_history[k].body.error = invoked[i].error

\* C5 witness: a handler raised in round 1 and the next completion request is
\* out.
C5_Witness ==
    /\ pc = "reinvoke"
    /\ iteration = 1
    /\ \E i \in DOMAIN invoked :
          invoked[i].raised /\ invoked[i].error = "Invalid parameters for view_booking"

\* C6: when the first completion response carries no tool call the exchange
\* ends in round 1 without any handler invocation, returns that response's
\* text, and the stored conversation ends with the user message followed by
\* exactly that text as the Assistant message.
C6_DirectAnswer ==
    (pc = "returned" /\ completion_calls = 1 /\ response.tool_calls = << >>) =>
        LET ms == memories[user_id].messages
            n == Len(ms)
            before == IF memory_before[user_id].present
                      THEN Len(memory_before[user_id].messages) ELSE 1
        IN /\ iteration = 0
           /\ invoked = << >>
           /\ stalled = "final"
           /\ response_text = response.content
           /\ n = before + 2
           /\ ms[n - 1] = HumanMessage(message_body)
           /\ ms[n] = AIMessage(response.content, << >>)

\* C6 witness: a direct answer given on top of an earlier conversation.
C6_Witness ==
    /\ pc = "returned"
    /\ completion_calls = 1
    /\ response.tool_calls = << >>
    /\ response.content # ""
    /\ memory_before[user_id].present

\* C7 as stated: when a completion request fails the stored conversations
\* are exactly what they were before the exchange began.
C7_NoCommitOnFailure ==
    pc = "raised" => memories = memory_before

\* C8: process_message always hands back a response: success=false with the
\* apology text and the error set when the provider raised, success=true with
\* exactly the provider's text when it returned.
C8_ServiceNeverRaises ==
    /\ (pc = "raised" =>
          /\ service_response.success = "false"
          /\ service_response.response_text # ""
          /\ service_response.error = error
          /\ service_response.error # ""
          /\ service_response.user_id = user_id)
    /\ (pc = "returned" =>
          /\ service_response.success = "true"
          /\ service_response.response_text = response_text
          /\ service_response.user_id = user_id)

\* C8 witness: the provider raised after a tool round and the service
\* answered with a failure response.
C8_Witness ==
    /\ pc = "raised"
    /\ iteration >= 1
    /\ service_response.success = "false"

\* C9: every stored conversation holds exactly one System message, and it is
\* the first message.
C9_OneSystemMessageFirst ==
    \A u \in Users :
        memories[u].present =>
           LET ms == memories[u].messages
           IN /\ Len(ms) >= 1
              /\ ms[1].role = "system"
              /\ \A i \in 2..Len(ms) : ms[i].role # "system"

\* C9 witness: a user's second exchange on a later day: the System message
\* was rewritten in place.
C9_Witness ==
    \E u \in Users :
        /\ memories[u].present
        /\ Len(memories[u].messages) >= 4
        /\ today = 1
        /\ memories[u].messages[1] = SystemMessage(1)

\* a Tool message answers a call of an Assistant message
AnswersCall(call, key) ==
    IF call.id = NoId
    THEN key.id = NoId /\ key.name = call.name /\ key.it >= 1
    ELSE key = IdKey(call.id)

\* C10 as stated: in every history sent to the completion API each Tool
\* message comes after an Assistant message whose tool_calls hold its
\* tool_call_id.
C10_ToolMessagesAnswerAssistant ==
    \A i \in DOMAIN request :
        request[i].role = "tool" =>
           \E j \in 1..(i - 1) :
              /\ request[j].role = "ai"
              /\ \E k \in DOMAIN request[j].tool_calls :
                    AnswersCall(request[j].tool_calls[k], request[i].tool_call_id)

Shaped == pkind = "shape" /\ ppc = "done"
LimitsDone == pkind = "limits" /\ ppc = "done"
Parsed == pkind = "parse" /\ ppc = "done"

\* C11 as stated: the all_flights_context list of the Tool message of a
\* successful fare search has at most max_flights_in_context entries.
C11_ContextListCapped ==
    Shaped =>
        Len(shape_out.ctx) <= calculate_context_limits(shape_model).max_flights_in_context

\* C12 as stated: for capacities c1 <= c2 every limit derived for c2 is at
\* least the same limit derived for c1.
C12_LimitsMonotone ==
    (LimitsDone /\ cap1 <= cap2) =>
        /\ limits1.max_tool_message_tokens <= limits2.max_tool_message_tokens
        /\ limits1.max_tool_message_chars <= limits2.max_tool_message_chars
        /\ limits1.max_flights_in_context <= limits2.max_flights_in_context
        /\ limits1.max_chars_per_flight <= limits2.max_chars_per_flight
        /\ limits1.max_history_messages <= limits2.max_history_messages

\* the fares of the response that carry passenger data
PaxFareIndices == {i \in DOMAIN raw.Fares : raw.Fares[i].has_pax}

\* C13: parse_flight_search_response raises and returns nothing when the
\* response is empty, has no Fares entry, has a Fares entry that is no list,
\* or has an empty Fares list.
C13_InvalidShapeRaises ==
    (Parsed /\ (raw.shape # "list" \/ raw.Fares = << >>)) =>
        /\ parsed.error # ""
        /\ parsed.options = << >>
        /\ parsed.allFlightsContext = << >>
        /\ parsed.totalCount = 0
        /\ (raw.shape \in {"empty", "no_fares"}
              => parsed.error = "Invalid response: response.Fares is missing")
        /\ (raw.shape = "not_list"
              => parsed.error = "Invalid response: response.Fares is not an array")
        /\ (raw.shape = "list" => parsed.error = "No fares found in response")

\* C13 witness: an empty Fares list was rejected.
C13_Witness ==
    /\ Parsed
    /\ raw.shape = "list"
    /\ raw.Fares = << >>
    /\ parsed.error = "No fares found in response"

\* C14: for a valid response totalCount is the number of fares that carry
\* passenger data, allFlightsContext has exactly that many entries, and
\* neither depends on limit.
C14_TotalCountAllFares ==
    (Parsed /\ parsed.error = "") =>
        /\ parsed.totalCount = Cardinality(PaxFareIndices)
        /\ Len(parsed.allFlightsContext) = parsed.totalCount
        /\ \A n \in Limits :
              LET other == parse_flight_search_response(raw, sort_order, n)
              IN /\ other.error = ""
                 /\ other.totalCount = parsed.totalCount
                 /\ other.allFlightsContext = parsed.allFlightsContext

\* C14 witness: three fares, one without passenger data, parsed with limit 1.
C14_Witness ==
    /\ Parsed
    /\ Len(raw.Fares) = 3
    /\ Cardinality(PaxFareIndices) = 2
    /\ limit = 1
    /\ parsed.totalCount = 2
    /\ Len(parsed.allFlightsContext) = 2

\* C15: for a valid response and a limit >= 0 the options list has exactly
\* min(limit, totalCount) entries.
C15_OptionsLimited ==
    (Parsed /\ parsed.error = "" /\ limit >= 0) =>
        Len(parsed.options) = Min(limit, parsed.totalCount)

\* C15 witness: three options were parsed and two returned.
C15_Witness ==
    /\ Parsed
    /\ limit = 2
    /\ parsed.totalCount = 3
    /\ Len(parsed.options) = 2

\* the amount the parser reads from a fare
AmountOfFare(fare) ==
    IF fare.TotalAmountWithFees # 0 THEN fare.TotalAmountWithFees ELSE fare.TotalAmount

\* C16: the options are ordered by total amount, non-decreasing for
\* 'cheapest' and non-increasing for 'most_expensive'; allFlightsContext
\* holds the fares with passenger data in that same order, entry by entry,
\* and options is the first `limit` entries of it.
C16_SortedByAmount ==
    (Parsed /\ parsed.error = "") =>
        LET ctx == parsed.allFlightsContext
        IN /\ \A i, j \in DOMAIN ctx :
                 i < j =>
                    IF sort_order = "most_expensive"
                    THEN ctx[i].TotalPrice >= ctx[j].TotalPrice
                    ELSE ctx[i].TotalPrice <= ctx[j].TotalPrice
           /\ \A f \in FareAlphabet :
                 Cardinality({i \in DOMAIN ctx : ctx[i].FareID = f.FareID})
                    = Cardinality({i \in PaxFareIndices : raw.Fares[i] = f})
           /\ \A i \in DOMAIN ctx :
                 \E k \in PaxFareIndices :
                    /\ raw.Fares[k].FareID = ctx[i].FareID
                    /\ AmountOfFare(raw.Fares[k]) = ctx[i].TotalPrice
           /\ Len(parsed.options) <= Len(ctx)
           /\ \A i \in DOMAIN parsed.options :
                 /\ parsed.options[i].id = ctx[i].FareID
                 /\ parsed.options[i].totalAmount = ctx[i].TotalPrice
           /\ (limit >= 0 => Len(parsed.options) = Min(limit, Len(ctx)))

\* C16 witness: three fares given in another order than by amount, parsed
\* most expensive first with limit 2.
C16_Witness ==
    /\ Parsed
    /\ sort_order = "most_expensive"
    /\ limit = 2
    /\ Len(parsed.allFlightsContext) = 3
    /\ parsed.allFlightsContext[1].TotalPrice > parsed.allFlightsContext[3].TotalPrice
    /\ raw.Fares[1].FareID # parsed.allFlightsContext[1].FareID
    /\ Len(parsed.options) = 2

\* the fare a context entry or an option was parsed from
FareOfId(id) == CHOOSE f \in FareAlphabet : f.FareID = id

UsablePoint(point) == point.day >= 0 /\ point.minute >= 0
MinuteOf(point) == point.day * 1440 + point.minute

RECURSIVE RawDurationSum(_)
RawDurationSum(raw_segments) ==
    IF raw_segments = << >> THEN 0
    ELSE Head(raw_segments).Duration + RawDurationSum(Tail(raw_segments))

\* the duration of a leg as the claim gives it
ExpectedLegDuration(leg) ==
    LET first == leg.Segments[1].Departure
        last == leg.Segments[Len(leg.Segments)].Arrival
    IN IF leg.OptionDuration > 0 THEN leg.OptionDuration
       ELSE IF UsablePoint(first) /\ UsablePoint(last)
               /\ MinuteOf(last) - MinuteOf(first) >= 0
            THEN MinuteOf(last) - MinuteOf(first)
            ELSE RawDurationSum(leg.Segments)

LegsOffered(fare) == {k \in DOMAIN fare.Legs : fare.Legs[k].has_options}
LastLeg(fare) == fare.Legs[Len(fare.Legs)]

C18_RoundTripTotal ==
    (Parsed /\ parsed.error = "") =>
        /\ \A i \in DOMAIN parsed.allFlightsContext :
              LET entry == parsed.allFlightsContext[i]
                  fare == FareOfId(entry.FareID)
              IN Cardinality(LegsOffered(fare)) > 1 =>
                    /\ entry.FlightType = "RoundTrip"
                    /\ entry.TotalDuration
                          = entry.OutboundDuration + entry.ReturnDuration
                    /\ (fare = FareRoundTrip =>
                          /\ entry.OutboundDuration = 300
                          /\ entry.ReturnDuration = 280
                          /\ entry.TotalDuration = 580
                          /\ entry.TotalDuration #
                                MinuteOf(LastLeg(fare).Segments[1].Arrival)
                                - MinuteOf(fare.Legs[1].Segments[1].Departure)
                          /\ entry.TotalDuration #
                                RawDurationSum(fare.Legs[1].Segments)
                                + RawDurationSum(LastLeg(fare).Segments))
        /\ \A i \in DOMAIN parsed.options :
              parsed.options[i].is_round_trip =>
                 parsed.allFlightsContext[i].FlightType = "RoundTrip"

\* C18 witness: the round trip of 300 and 280 minutes was parsed and returned.
C18_Witness ==
    /\ Parsed
    /\ \E i \in DOMAIN parsed.options :
          /\ parsed.options[i].id = "F3"
          /\ parsed.options[i].is_round_trip
          /\ parsed.allFlightsContext[i].TotalDuration = 580

\* C19 as stated: a one-way option whose single leg carries a positive
\* provider duration reports that duration as TotalDuration.
C19_OneWayProviderDuration ==
    (Parsed /\ parsed.error = "") =>
        \A i \in DOMAIN parsed.allFlightsContext :
            LET entry == parsed.allFlightsContext[i]
                fare == FareOfId(entry.FareID)
            IN (/\ entry.FlightType = "OneWay"
                /\ Len(fare.Legs) = 1
                /\ fare.Legs[1].OptionDuration > 0)
               => entry.TotalDuration = fare.Legs[1].OptionDuration

\* C20 as stated: the segments of the first leg are outbound_segments, those
\* of every later leg are return_segments in their order, and the option is
\* flagged round trip exactly when the fare has more than one leg.
C20_LegsPartitionSegments ==
    (Parsed /\ parsed.error = "") =>
        \A i \in DOMAIN parsed.options :
            LET option == parsed.options[i]
                fare == FareOfId(option.id)
            IN /\ option.outbound_segments = ParsedSegments(fare.Legs[1].Segments)
               /\ option.return_segments = AllSegments(Tail(fare.Legs))
               /\ option.segments = option.outbound_segments \o option.return_segments
               /\ option.is_round_trip = (Len(fare.Legs) > 1)

\* C22 as stated: a call that names a function without handler is answered
\* by a Tool message carrying success = false.
C22_UnknownFunctionAnswered ==
    \A i \in DOMAIN round_log :
        round_log[i].what = "no_tool" =>
            \E j \in DOMAIN tool_messages :
                /\ tool_messages[j].tool_call_id = round_log[i].key
                /\ tool_messages[j].body.success = "false"

RECURSIVE IsSubsequence(_, _)
\* `a` is `b` with some entries left out
IsSubsequence(a, b) ==
    IF a = << >> THEN TRUE
    ELSE IF b = << >> THEN FALSE
    ELSE IF Head(a) = Head(b) THEN IsSubsequence(Tail(a), Tail(b))
    ELSE IsSubsequence(a, Tail(b))

\* C28: the Tool messages of a round stand in the order of the requests they
\* answer, at the end of the history, directly after the Assistant message
\* that requested them.
C28_ToolMessagesInRequestOrder ==
    pc = "reinvoke" =>
        LET n == Len(tool_messages)
            h == Len(current_history)
            requested == [i \in DOMAIN response.tool_calls |->
                             CallKey(response.tool_calls[i], iteration)]
            answered == [j \in 1..n |-> tool_messages[j].tool_call_id]
        IN /\ IsSubsequence(answered, requested)
           /\ h > n
           /\ SubSeq(current_history, h - n + 1, h) = tool_messages
           /\ current_history[h - n] = response

\* C28 witness: a round whose two calls with different ids were both answered.
C28_Witness ==
    /\ pc = "reinvoke"
    /\ Len(tool_messages) = 2
    /\ tool_messages[1].tool_call_id = IdKey("call_a")
    /\ tool_messages[2].tool_call_id = IdKey("call_b")
    /\ response.tool_calls[1].id = "call_a"

\* C30 as stated: the exchange ends as a stall only when every identity key
\* requested by the last response had been executed before.
C30_StallOnlyWhenAllExecuted ==
    stalled = "stall" =>
        RequestedKeys(response, iteration)
            \subseteq (all_executed_tool_call_ids \cup executed_tool_calls)

\* C27 as stated: the result of an exchange in which a handler ran carries
\* metadata with an entry besides the two text lengths, one that can state
\* the tool use or the number of fares found.
C27_MetadataReportsTools ==
    (pc = "returned" /\ invoked # << >>) =>
        \E k \in service_response.metadata.keys :
            k \notin {"message_length", "response_length"}

\* C26 as stated: when the search handler reports success with a fare
\* payload of invalid shape, the Tool message of the call carries
\* success = false.
C26_ShapeErrorSurfaced ==
    pc = "reinvoke" =>
        \A i \in DOMAIN invoked :
            (/\ invoked[i].it = iteration
             /\ invoked[i].name = "search_flights"
             /\ invoked[i].success = "true"
             /\ invoked[i].fares = "invalid")
            => \E j \in DOMAIN tool_messages :
                  /\ tool_messages[j].tool_call_id = invoked[i].key
                  /\ tool_messages[j].body.success = "false"

\* C29 as stated: the completion request that follows a round carries at
\* most max_history_messages history messages.
C29_RequestWithinWindow ==
    pc = "reinvoke" => Len(request) <= context_limits.max_history_messages

RECURSIVE LastRegistered(_, _)
\* the handler of the last call in `calls` that registered `function_name`
LastRegistered(calls, function_name) ==
    IF calls = << >> THEN NoHandler
    ELSE LET last == calls[Len(calls)]
         IN IF last.raised = "" /\ last.handler.function_name = function_name
            THEN last.handler
            ELSE LastRegistered(SubSeq(calls, 1, Len(calls) - 1), function_name)

\* C21: get_handler(name) is the handler most recently registered under the
\* name; registering a name that is present does not raise and replaces the
\* earlier handler.
C21_LastRegisteredWins ==
    /\ \A name \in FunctionNames \cup {"book_hotel"} :
          get_handler(registry, name) = LastRegistered(register_calls, name)
    /\ \A i, j \in DOMAIN register_calls :
          (/\ i < j
           /\ register_calls[i].raised = ""
           /\ register_calls[j].handler.is_handler
           /\ register_calls[j].handler.function_name
                 = register_calls[i].handler.function_name)
          => register_calls[j].raised = ""

\* C21 witness: a name was registered twice with different handlers and
\* get_handler returns the second one.
C21_Witness ==
    /\ Len(register_calls) = 2
    /\ register_calls[1].handler = SearchHandler
    /\ register_calls[2].handler = OtherSearchHandler
    /\ register_calls[2].raised = ""
    /\ get_handler(registry, "search_flights") = OtherSearchHandler

AllDone == \A t \in Threads : threads[t].pc = "done"

\* C23 as stated: with the two threads serving different users, every
\* handler invocation receives the user_id of the exchange that requested it.
C23_HandlerGetsOwnUser ==
    (\A t1, t2 \in Threads : t1 # t2 /\ threads[t1].pc # "idle" /\ threads[t2].pc # "idle"
                                => threads[t1].user_id # threads[t2].user_id)
    => \A i \in DOMAIN handled : handled[i].user_id = handled[i].requested_by

\* C24 as stated: in every stored conversation each user message is directly
\* followed by the assistant reply of the same exchange.
C24_ExchangesDoNotInterleave ==
    AllDone =>
        \A u \in Users :
            LET messages == memories[u].messages
            IN \A i \in DOMAIN messages :
                  messages[i].role = "human" =>
                     /\ i < Len(messages)
                     /\ messages[i + 1] = AIMessage(ReplyTo(messages[i].content), << >>)

\* C25 in its weakest reading: once a search of a user has reached the
\* external API and succeeded, no search of that user with the same payload
\* and the same cache key reaches the API again within cache_ttl seconds.
C25_OneApiCallPerWindow ==
    \A i, j \in DOMAIN api_log :
        (/\ i < j
         /\ api_log[i].requested_by = api_log[j].requested_by
         /\ api_log[i].user_id = api_log[j].user_id
         /\ api_log[i].payload_hash = api_log[j].payload_hash
         /\ api_log[i].ok)
        => (api_log[j].time - api_log[i].time) * 15 >= cache_ttl

\* C31 as stated: when the next completion request is sent, every tool call
\* requested in the round is answered by exactly one Tool message of that
\* round carrying its tool_call_id.
C31_EveryCallAnswered ==
    pc = "reinvoke" =>
        \A i \in DOMAIN response.tool_calls :
            Cardinality({j \in DOMAIN tool_messages :
                            tool_messages[j].tool_call_id
                                = CallKey(response.tool_calls[i], iteration)}) = 1

C33_ToolMessageBounded ==
    (pkind = "shape" /\ ppc = "done") =>
        LET max_size == calculate_context_limits(shape_model).max_tool_message_chars
        IN /\ shape_out.form \in {"json", "cut"}
           /\ shape_out.success = "true"
           /\ (shape_out.form = "json" => shape_out.len <= max_size)
           /\ (shape_out.form = "cut" =>
                 shape_out.len = max_size + TruncationMarkerLen)
           /\ shape_out.len <= max_size + TruncationMarkerLen

\* C33 witness: a parsed fare search whose serialized result did not fit
\* after the context list was shortened, and was cut.
C33_Witness ==
    /\ pkind = "shape" /\ ppc = "done"
    /\ shape_fares = "valid"
    /\ shape_out.form = "cut"
    /\ shape_out.instruction = "yes"
    /\ CleanResultLen(shape_ctx, 0)
          > calculate_context_limits(shape_model).max_tool_message_chars

\* C34 as stated: a fare-search Tool message of an earlier round that is sent
\* again in a later completion request has at most max_flights_in_context
\* entries in all_flights_context, each of at most max_chars_per_flight
\* characters plus the truncation marker.
C34_CarriedContextCapped ==
    pc = "reinvoke" =>
        \A i \in 1..(Len(request) - Len(tool_messages)) :
            (request[i].role = "tool" /\ HasFlightsContext(request[i].body)) =>
                /\ Len(request[i].body.ctx) <= context_limits.max_flights_in_context
                /\ \A k \in DOMAIN request[i].body.ctx :
                      request[i].body.ctx[k]
                          <= context_limits.max_chars_per_flight + TruncationMarkerLen

\* the places (vertical, index) where `handler` is listed
Listings(handler) ==
    {p \in Verticals \X (1..MaxRegistrations) :
        /\ p[2] <= Len(get_handlers_by_vertical(registry, p[1]))
        /\ get_handlers_by_vertical(registry, p[1])[p[2]] = handler}

\* C39 as stated: every handler listed under a vertical is the handler that
\* get_handler returns for its function name, and every handler of
\* get_all_handlers is listed under exactly one vertical, once.
C39_VerticalListsCurrent ==
    /\ \A v \in Verticals :
          \A i \in DOMAIN get_handlers_by_vertical(registry, v) :
             LET h == get_handlers_by_vertical(registry, v)[i]
             IN get_handler(registry, h.function_name) = h
    /\ \A n \in get_all_handlers(registry) :
          Cardinality(Listings(get_handler(registry, n))) = 1

\* C37: a search that returned a cached result returned an entry stored
\* under its own (user_id, payload hash) key and less than cache_ttl seconds
\* old.
C37_CachedOnlyOwnAndFresh ==
    \A t \in Threads :
        threads[t].cached # NoCached =>
            /\ threads[t].cached.key = cache_key(t)
            /\ threads[t].cached.age >= 0
            /\ threads[t].cached.age < cache_ttl

\* C37 witness: a search returned the entry that the other thread's search
\* had stored 15 seconds before under the same key.
C37_Witness ==
    \E t, o \in Threads :
        /\ t # o
        /\ threads[t].cached.age = 15
        /\ threads[t].cached.key = cache_key(o)
        /\ \E i \in DOMAIN api_log : api_log[i].thread = o /\ api_log[i].ok
        /\ \A i \in DOMAIN api_log : api_log[i].thread # t

\* C35 as stated: a clear_old_messages(user, n) call that found more than n
\* messages stored the System messages followed by exactly the last n other
\* messages (all of them when there are fewer), in their order; a call that
\* found at most n messages stored nothing.
C35_ClearKeepsLastN ==
    \A i \in DOMAIN repo_log :
        repo_log[i].op = "clear_old_messages" =>
            LET before == repo_log[i].read.messages
                n == repo_log[i].keep_last_n
            IN IF Len(before) > n
               THEN /\ repo_log[i].saved
                    /\ repo_log[i].messages
                          = SystemMessages(before) \o LastN(OtherMessages(before), n)
               ELSE ~repo_log[i].saved

\* C36 as stated: when every add_message call has returned and nothing was
\* cleared, each message added is in the stored conversation of its user.
C36_NoAppendLost ==
    (/\ \A w \in Workers : workers[w].pc = "idle"
     /\ \A i \in DOMAIN repo_log : repo_log[i].op = "add_message")
    => \A i \in DOMAIN repo_log :
          \E k \in DOMAIN redis[repo_log[i].user_id].messages :
             redis[repo_log[i].user_id].messages[k] = repo_log[i].message

\* the API's cancellation was called
Cancelled == cancel_calls # << >>

\* C38 as stated: the cancellation is called only when confirmation is the
\* boolean true or one of the strings 'true', 'yes', '1'.
C38_AsStated ==
    (cancel_pc = "done" /\ Cancelled) =>
        parameters.confirmation \in {Bool("True"), Str("true"), Str("yes"), Str("1")}

\* C38, amended: the cancellation is called, once and for the given booking
\* and user, exactly when the parameters are valid and confirmation is the
\* boolean true or a string that is 'true', 'yes' or '1' when lowercased; in
\* every other case nothing is called and the handler raises ValueError or
\* returns success = false with cancelled = false.
C38_CancelOnlyWhenConfirmed ==
    cancel_pc = "done" =>
        LET c == parameters.confirmation
            confirmed == \/ c = Bool("True")
                         \/ c.type = "str" /\ Lower(c.value) \in {"true", "yes", "1"}
            valid_id == parameters.booking_id.type = "str"
                        /\ parameters.booking_id.value # ""
        IN /\ Cancelled <=> (confirmed /\ valid_id)
           /\ Cancelled =>
                 cancel_calls = <<[booking_id |-> parameters.booking_id.value,
                                   user_id |-> cancel_user_id,
                                   confirmation |-> TRUE]>>
           /\ ~Cancelled =>
                 \/ cancel_result.raised = "Invalid parameters for cancel_booking"
                 \/ /\ cancel_result.raised = ""
                    /\ cancel_result.success = "false"
                    /\ cancel_result.cancelled = "false"
           /\ cancel_result.cancelled = "true" => Cancelled

\* C38 witness: the string 'TRUE' was given with a booking id, and the
\* booking was cancelled for the user of the call.
C38_Witness ==
    /\ cancel_pc = "done"
    /\ parameters.confirmation = Str("TRUE")
    /\ parameters.booking_id = Str("BK1")
    /\ Cancelled
    /\ cancel_calls[1].user_id = cancel_user_id
    /\ cancel_result.cancelled = "true"

\* C40 as stated: the run status is retrieved at most 120 times.
C40_AtMostMaxAttemptsRetrievals ==
    retrievals <= max_attempts

====
